---- MODULE Spec2Model ----
(***************************************************************************)
(* Verification model of optionslib: the schedule builder                  *)
(* (optionslib/time/schedule.py), the date utilities it rests on           *)
(* (optionslib/time/time_utils.py, optionslib/time/holiday_calendar.py)    *)
(* and the part of the fixed-rate-bond pricer that consumes a schedule     *)
(* (optionslib/models/fixed_rate_bond_pricer.py).                          *)
(*                                                                         *)
(* A datetime.date is the integer year*10000 + month*100 + day, so that    *)
(* the order of the integers is the order of the dates.  Python's None is  *)
(* None (0); a call that raises is the value RAISE (-1).                   *)
(***************************************************************************)
EXTENDS Integers, Sequences, FiniteSets, TLC

None == 0

RAISE == 0 - 1

\* ------------------------------------------------------------------------
\* datetime.date
\* ------------------------------------------------------------------------

Date(y, m, d) == y * 10000 + m * 100 + d

Year(x) == x \div 10000

Month(x) == (x \div 100) % 100

Day(x) == x % 100

is_leap_year(year) ==
    ((year % 4 = 0) /\ ~(year % 100 = 0)) \/ (year % 400 = 0)

length_of_year(year) == IF is_leap_year(year) THEN 366 ELSE 365

\* calendar.monthrange(year, month)[1]
monthrange(year, month) ==
    IF month = 2 THEN (IF is_leap_year(year) THEN 29 ELSE 28)
    ELSE IF month \in {4, 6, 9, 11} THEN 30 ELSE 31

get_length_of_month(date_value) ==
    monthrange(Year(date_value), Month(date_value))

\* dt.date(y, m, d) succeeds exactly for these arguments; otherwise it
\* raises ValueError.
ValidDate(y, m, d) ==
    /\ m \in 1..12
    /\ d >= 1
    /\ d <= monthrange(y, m)

\* date.toordinal()
DaysBeforeYear(y) ==
    (y - 1) * 365 + (y - 1) \div 4 - (y - 1) \div 100 + (y - 1) \div 400

RECURSIVE DaysBeforeMonth(_, _)
DaysBeforeMonth(y, m) ==
    IF m = 1 THEN 0 ELSE DaysBeforeMonth(y, m - 1) + monthrange(y, m - 1)

toordinal(x) == DaysBeforeYear(Year(x)) + DaysBeforeMonth(Year(x), Month(x)) + Day(x)

\* date.weekday(): Monday is 0 ... Sunday is 6
weekday(x) == (toordinal(x) + 6) % 7

MONDAY == 0

SATURDAY == 5

SUNDAY == 6

\* date + timedelta(days=1), date - timedelta(days=1)
NextDay(x) ==
    IF Day(x) < get_length_of_month(x) THEN x + 1
    ELSE IF Month(x) < 12 THEN Date(Year(x), Month(x) + 1, 1)
    ELSE Date(Year(x) + 1, 1, 1)

PrevDay(x) ==
    IF Day(x) > 1 THEN x - 1
    ELSE IF Month(x) > 1
         THEN Date(Year(x), Month(x) - 1, monthrange(Year(x), Month(x) - 1))
    ELSE Date(Year(x) - 1, 12, 31)

\* date.fromordinal()
fromordinal(o) ==
    LET in_year(y) ==
            LET in_month(m) ==
                    Date(y, m, o - DaysBeforeYear(y) - DaysBeforeMonth(y, m))
            IN  in_month(CHOOSE mm \in 1..12 :
                             /\ DaysBeforeYear(y) + DaysBeforeMonth(y, mm) < o
                             /\ o <= DaysBeforeYear(y) + DaysBeforeMonth(y, mm)
                                         + monthrange(y, mm))
    IN  in_year(CHOOSE yy \in (o \div 366)..(o \div 365 + 1) :
                    DaysBeforeYear(yy) < o /\ o <= DaysBeforeYear(yy + 1))

\* date + timedelta(days=n)
AddDays(x, n) == IF n = 0 THEN x ELSE fromordinal(toordinal(x) + n)

\* ------------------------------------------------------------------------
\* time_utils.py: helpers of the holiday calendar
\* ------------------------------------------------------------------------

first_in_month(year, month, day_of_week) ==
    Date(year, month,
         CHOOSE d \in 1..7 : weekday(Date(year, month, d)) = day_of_week)

last_in_month(year, month, day_of_week) ==
    LET num_days == monthrange(year, month)
    IN  Date(year, month,
             CHOOSE d \in (num_days - 6)..num_days :
                 weekday(Date(year, month, d)) = day_of_week)

easter(year) ==
    LET a == year % 19
        b == year \div 100
        c == year % 100
        d == b \div 4
        e == b % 4
        f == (b + 8) \div 25
        g == b - f + 1
        h == (19 * a + b - d - g + 15) % 30
        i == c \div 4
        k == c % 4
        l == (32 + 2 * e + 2 * i - h - k) % 7
        m == (a + 11 * h + 22 * l) \div 451
        month == (h + l - 7 * m + 114) \div 31
        dd == ((h + l - 7 * m + 114) % 31) + 1
    IN  Date(year, month, dd)

bump_to_mon(date_value) ==
    IF weekday(date_value) = SATURDAY THEN AddDays(date_value, 2)
    ELSE IF weekday(date_value) = SUNDAY THEN AddDays(date_value, 1)
    ELSE date_value

\* christmas_bumped_sun: Christmas is moved when it falls on a Sunday only
christmas_bumped_sun(year) ==
    LET base == Date(year, 12, 25)
    IN  IF weekday(base) = SUNDAY THEN Date(year, 12, 26) ELSE base

christmas_bumped_sat_or_sun(year) ==
    LET base == Date(year, 12, 25)
    IN  IF weekday(base) = SATURDAY \/ weekday(base) = SUNDAY
        THEN Date(year, 12, 27)
        ELSE base

boxing_day_bumped_sat_sun(year) ==
    LET base == Date(year, 12, 26)
    IN  IF weekday(base) = SATURDAY \/ weekday(base) = SUNDAY
        THEN Date(year, 12, 28)
        ELSE base

\* ------------------------------------------------------------------------
\* holiday_calendar.py: HolidayCalendar (LONDON, weekend SATURDAY/SUNDAY,
\* the defaults a Schedule is constructed with)
\* ------------------------------------------------------------------------

FirstCalendarYear == 1950

LastCalendarYear == 2100

\* the dates one iteration of the loop of generate_london_calendar appends
london_year(year) ==
    (IF year >= 1974 THEN {bump_to_mon(Date(year, 1, 1))} ELSE {})
    \cup {AddDays(easter(year), 0 - 2), AddDays(easter(year), 1)}
    \cup (IF year \in {1995, 2020} THEN {Date(year, 5, 8)}
          ELSE IF year >= 1978 THEN {first_in_month(year, 5, MONDAY)}
          ELSE {})
    \cup (IF year = 2002 THEN {Date(2002, 6, 3), Date(2002, 6, 4)}
          ELSE IF year = 2012 THEN {Date(2012, 6, 4), Date(2012, 6, 5)}
          ELSE IF year = 2022 THEN {Date(2022, 6, 2), Date(2022, 6, 3)}
          ELSE IF year \in {1967, 1970} THEN {last_in_month(year, 5, MONDAY)}
          ELSE IF year < 1971 THEN {AddDays(easter(year), 50)}
          ELSE {last_in_month(year, 5, MONDAY)})
    \cup (IF year < 1965 THEN {first_in_month(year, 8, MONDAY)}
          ELSE IF year < 1971
               THEN {AddDays(last_in_month(year, 8, SATURDAY), 2)}
          ELSE {last_in_month(year, 8, MONDAY)})
    \cup (IF year = 2022 THEN {Date(2022, 9, 19)} ELSE {})
    \cup {christmas_bumped_sat_or_sun(year), boxing_day_bumped_sat_sun(year)}

remove_sat_sun(holidays) ==
    {x \in holidays : weekday(x) # SATURDAY /\ weekday(x) # SUNDAY}

generate_london_calendar ==
    remove_sat_sun(
        UNION {london_year(year) : year \in FirstCalendarYear..LastCalendarYear}
        \cup {Date(1999, 12, 31), Date(2011, 4, 29), Date(2023, 5, 8)})

\* HolidayCalendar._holiday_dates of the calendar a Schedule is built with
VARIABLE holiday_dates

is_holiday(date_value) ==
    \/ weekday(date_value) = SATURDAY
    \/ weekday(date_value) = SUNDAY
    \/ date_value \in holiday_dates

\* ------------------------------------------------------------------------
\* time_utils.py: period arithmetic and business-day adjustment
\* ------------------------------------------------------------------------

\* add_months: the month is (start.month + months) % 13 + year_roll.  A
\* ValueError of dt.date (day OR month out of range) is answered by retrying
\* from the previous day of the start month; dt.date(..., start.day - 1)
\* with start.day = 1 raises inside the handler and the error propagates.
RECURSIVE add_months(_, _)
add_months(start, months) ==
    LET year_roll == (Month(start) + months - 1) \div 12
        month == ((Month(start) + months) % 13) + year_roll
    IN  IF ValidDate(Year(start) + year_roll, month, Day(start))
        THEN Date(Year(start) + year_roll, month, Day(start))
        ELSE IF Day(start) - 1 >= 1
             THEN add_months(Date(Year(start), Month(start), Day(start) - 1),
                             months)
        ELSE RAISE

RECURSIVE add_years(_, _)
add_years(start, years) ==
    IF ValidDate(Year(start) + years, Month(start), Day(start))
    THEN Date(Year(start) + years, Month(start), Day(start))
    ELSE IF Day(start) - 1 >= 1
         THEN add_years(Date(Year(start), Month(start), Day(start) - 1), years)
    ELSE RAISE

BUSINESS_DAYS == "business days"

DAYS == "days"

MONTHS == "months"

YEARS == "years"

\* add_period whose BUSINESS_DAYS walk counts every calendar day
RECURSIVE add_period_counting_holidays(_, _, _)
add_period_counting_holidays(start, length, period) ==
    IF period = DAYS THEN AddDays(start, length)
    ELSE IF period = BUSINESS_DAYS
    THEN IF length = 0 THEN start
         ELSE add_period_counting_holidays(
                  IF length > 0 THEN NextDay(start) ELSE PrevDay(start),
                  length + (IF length > 0 THEN 0 - 1 ELSE 1),
                  BUSINESS_DAYS)
    ELSE IF period = MONTHS THEN add_months(start, length)
    ELSE add_years(start, length)

RECURSIVE add_period(_, _, _)
add_period(start, length, period) ==
    IF period = DAYS THEN AddDays(start, length)
    ELSE IF period = BUSINESS_DAYS
    THEN IF length = 0 THEN start
         ELSE LET next_date == IF length > 0 THEN NextDay(start)
                               ELSE PrevDay(start)
              IN  IF is_holiday(next_date)
                  THEN add_period(next_date, length, BUSINESS_DAYS)
                  ELSE add_period(next_date,
                                  length + (IF length > 0 THEN 0 - 1 ELSE 1),
                                  BUSINESS_DAYS)
    ELSE IF period = MONTHS THEN add_months(start, length)
    ELSE add_years(start, length)

NO_ADJUST == "No adjustment"

MODIFIED_FOLLOWING == "Modified Following"

FOLLOWING == "Following"

PRECEDING == "Preceding"

MODIFIED_PRECEDING == "Modified Preceding"

\* adjust whose MODIFIED_FOLLOWING does not look at the month
adjust_never_preceding(unadjusted_date, bus_day_convention) ==
    LET by_convention(following_date, preceding_date) ==
            IF bus_day_convention = NO_ADJUST THEN unadjusted_date
            ELSE IF bus_day_convention = FOLLOWING THEN following_date
            ELSE IF bus_day_convention = MODIFIED_FOLLOWING
            THEN following_date
            ELSE IF bus_day_convention = PRECEDING THEN preceding_date
            ELSE IF Month(preceding_date) # Month(unadjusted_date)
                 THEN following_date
                 ELSE preceding_date
    IN  IF is_holiday(unadjusted_date)
        THEN by_convention(add_period(unadjusted_date, 1, BUSINESS_DAYS),
                           add_period(unadjusted_date, 0 - 1, BUSINESS_DAYS))
        ELSE unadjusted_date

adjust(unadjusted_date, bus_day_convention) ==
    LET by_convention(following_date, preceding_date) ==
            IF bus_day_convention = NO_ADJUST THEN unadjusted_date
            ELSE IF bus_day_convention = FOLLOWING THEN following_date
            ELSE IF bus_day_convention = MODIFIED_FOLLOWING
            THEN IF Month(following_date) # Month(unadjusted_date)
                 THEN preceding_date
                 ELSE following_date
            ELSE IF bus_day_convention = PRECEDING THEN preceding_date
            ELSE IF Month(preceding_date) # Month(unadjusted_date)
                 THEN following_date
                 ELSE preceding_date
    IN  IF is_holiday(unadjusted_date)
        THEN by_convention(add_period(unadjusted_date, 1, BUSINESS_DAYS),
                           add_period(unadjusted_date, 0 - 1, BUSINESS_DAYS))
        ELSE unadjusted_date

\* ------------------------------------------------------------------------
\* Outcomes of a call: "ok", or the exception that propagates to the caller
\* ------------------------------------------------------------------------

OK == "ok"

E_DAY_RANGE == "ValueError: day is out of range for month"

E_END_DATE == "ValueError: The end date must be >= the start date"

E_STUB_BOTH == "ValueError: First regular and last regular dates must be supplied"

E_FIRST_REGULAR == "ValueError: The first regular start date must be"

E_LAST_REGULAR == "ValueError: The last regular end date must be"

E_ORDER_END == "ValueError: The end date must be >= the last regular date"

E_ORDER_LAST == "ValueError: The last regular period end date must be >= the first regular period start date"

E_ORDER_FIRST == "ValueError: The first regular period start date must be >= the schedule start date"

E_INCOMPATIBLE == "ValueError: The schedule dates and roll convention are incompatible"

E_ROLL_DAY == "ValueError: The period date must follow the roll-day convention"

E_LAND == "ValueError: The last regular end date must fall on"

E_TYPE == "TypeError"

E_ATTRIBUTE == "AttributeError"

E_INDEX == "IndexError"

E_STOP == "StopIteration"

\* ------------------------------------------------------------------------
\* schedule.py: SchedulePeriod and Schedule
\* ------------------------------------------------------------------------

STUB_NONE == "None"

SHORT_INITIAL == "Short Initial"

LONG_INITIAL == "Long Initial"

SHORT_FINAL == "Short Final"

LONG_FINAL == "Long Final"

BOTH == "Both"

\* Schedule._roll_convention = None (RollConventions.NONE is the value 0)
NoRoll == 0 - 1

SchedulePeriod(unadjusted_start_date, unadjusted_end_date, adjusted_start_date, adjusted_end_date) ==
    [unadjusted_start_date |-> unadjusted_start_date,
     unadjusted_end_date   |-> unadjusted_end_date,
     adjusted_start_date   |-> adjusted_start_date,
     adjusted_end_date     |-> adjusted_end_date]

\* The attributes of a Schedule instance, except _schedule_periods (the list
\* is the variable schedule_periods) and _holiday_calendar (the default).
Schedule(start_date, end_date, first_regular_start_date, last_regular_end_date, num, units, business_day_convention, roll_convention, stub_convention) ==
    [start_date               |-> start_date,
     end_date                 |-> end_date,
     first_regular_start_date |-> first_regular_start_date,
     last_regular_end_date    |-> last_regular_end_date,
     num                      |-> num,
     units                    |-> units,
     business_day_convention  |-> business_day_convention,
     roll_convention          |-> roll_convention,
     stub_convention          |-> stub_convention]

check_end_date(start_date, value) ==
    IF value < start_date THEN E_END_DATE ELSE OK

check_stub_convention(first_regular_start_date, last_regular_end_date, value) ==
    IF value = BOTH
       /\ (first_regular_start_date = None \/ last_regular_end_date = None)
    THEN E_STUB_BOTH
    ELSE OK

\* loop_back of calculate_first_regular_start_date
RECURSIVE loop_back(_, _, _)
loop_back(date_i, succ_date, s) ==
    IF date_i = RAISE THEN RAISE
    ELSE IF date_i > s.start_date
    THEN CHOOSE found \in
             {loop_back(pred, date_i, s) :
                  pred \in {add_period(date_i, (0 - 1) * s.num, s.units)}} :
             TRUE
    ELSE succ_date

\* loop_forward of calculate_last_regular_end_date
RECURSIVE loop_forward(_, _, _)
loop_forward(date_i, prev_date, s) ==
    IF date_i = RAISE THEN RAISE
    ELSE IF date_i < s.end_date
    THEN CHOOSE found \in
             {loop_forward(succ, date_i, s) :
                  succ \in {add_period(date_i, s.num, s.units)}} :
             TRUE
    ELSE prev_date

\* [s |-> the schedule afterwards, exc |-> the outcome]
calculate_first_regular_start_date(s) ==
    LET calculated(first_date) ==
            IF s.stub_convention \in {STUB_NONE, SHORT_FINAL, LONG_FINAL}
            THEN [v |-> s.start_date, exc |-> OK]
            ELSE IF s.stub_convention = SHORT_INITIAL
            THEN [v |-> first_date,
                  exc |-> IF first_date = RAISE THEN E_DAY_RANGE ELSE OK]
            ELSE IF s.stub_convention = LONG_INITIAL
            THEN IF first_date = RAISE THEN [v |-> RAISE, exc |-> E_DAY_RANGE]
                 ELSE IF first_date = None
                 THEN [v |-> RAISE,
                       exc |-> IF s.units \in {MONTHS, YEARS}
                               THEN E_ATTRIBUTE ELSE E_TYPE]
                 ELSE LET moved(d) ==
                              [v |-> d,
                               exc |-> IF d = RAISE THEN E_DAY_RANGE ELSE OK]
                      IN  moved(add_period(first_date, s.num, s.units))
            ELSE [v |-> s.first_regular_start_date, exc |-> OK]
        assign(calc) ==
            IF calc.exc # OK THEN [s |-> s, exc |-> calc.exc]
            ELSE IF s.first_regular_start_date = None
            THEN [s |-> [s EXCEPT !.first_regular_start_date = calc.v],
                  exc |-> OK]
            ELSE IF s.first_regular_start_date # calc.v
            THEN [s |-> s,
                  exc |-> IF calc.v = None THEN E_TYPE ELSE E_FIRST_REGULAR]
            ELSE [s |-> s, exc |-> OK]
    IN  CHOOSE assigned \in
            {assign(calculated(first_date)) :
                 first_date \in {loop_back(s.end_date, None, s)}} : TRUE

calculate_last_regular_end_date(s) ==
    LET calculated(last_date) ==
            IF s.stub_convention \in {STUB_NONE, SHORT_INITIAL, LONG_INITIAL}
            THEN [v |-> s.end_date, exc |-> OK]
            ELSE IF s.stub_convention = SHORT_FINAL
            THEN [v |-> last_date,
                  exc |-> IF last_date = RAISE THEN E_DAY_RANGE ELSE OK]
            ELSE IF s.stub_convention = LONG_FINAL
            THEN IF last_date = RAISE THEN [v |-> RAISE, exc |-> E_DAY_RANGE]
                 ELSE IF last_date = None
                 THEN [v |-> RAISE,
                       exc |-> IF s.units \in {MONTHS, YEARS}
                               THEN E_ATTRIBUTE ELSE E_TYPE]
                 ELSE LET moved(d) ==
                              [v |-> d,
                               exc |-> IF d = RAISE THEN E_DAY_RANGE ELSE OK]
                      IN  moved(add_period(last_date, (0 - 1) * s.num, s.units))
            ELSE [v |-> s.last_regular_end_date, exc |-> OK]
        assign(calc) ==
            IF calc.exc # OK THEN [s |-> s, exc |-> calc.exc]
            ELSE IF s.last_regular_end_date = None
            THEN [s |-> [s EXCEPT !.last_regular_end_date = calc.v],
                  exc |-> OK]
            ELSE IF s.last_regular_end_date # calc.v
            THEN [s |-> s,
                  exc |-> IF calc.v = None THEN E_TYPE ELSE E_LAST_REGULAR]
            ELSE [s |-> s, exc |-> OK]
    IN  CHOOSE assigned \in
            {assign(calculated(last_date)) :
                 last_date \in {loop_forward(s.start_date, None, s)}} : TRUE

\* RollConventions(day): the member whose value is the day of the month
calculate_roll_convention(s) ==
    LET calculated_roll_convention ==
            IF s.stub_convention = STUB_NONE THEN Day(s.start_date)
            ELSE IF s.stub_convention \in {SHORT_INITIAL, LONG_INITIAL}
            THEN Day(s.end_date)
            ELSE IF s.stub_convention \in {SHORT_FINAL, LONG_FINAL}
            THEN Day(s.start_date)
            ELSE Day(s.first_regular_start_date)
    IN  IF s.roll_convention = NoRoll
        THEN [s EXCEPT !.roll_convention = calculated_roll_convention]
        ELSE s

\* the property Schedule.roll_convention: the schedule afterwards
roll_convention(s) ==
    IF s.roll_convention = NoRoll THEN calculate_roll_convention(s) ELSE s

\* valid_roll_day reads the attribute _roll_convention, not the property
valid_roll_day(s, date_value) ==
    \/ Day(date_value) = s.roll_convention
    \/ /\ s.roll_convention = 30
       /\ Month(date_value) = 2
       /\ Day(date_value) \in {28, 29}
    \/ /\ s.roll_convention = 29
       /\ Month(date_value) = 2
       /\ Day(date_value) \in {28}
       /\ ~is_leap_year(Year(date_value))
    \/ /\ s.roll_convention = 31
       /\ Month(date_value) \in {2, 4, 6, 9, 11}
       /\ Day(date_value) = 30

\* the roll-day tests of pre_validation, per stub convention
pre_validation_rolls_ok(t) ==
    IF t.stub_convention = STUB_NONE
    THEN /\ valid_roll_day(t, t.start_date)
         /\ valid_roll_day(t, t.last_regular_end_date)
         /\ valid_roll_day(t, t.first_regular_start_date)
         /\ valid_roll_day(t, t.end_date)
    ELSE IF t.stub_convention \in {SHORT_INITIAL, LONG_INITIAL}
    THEN /\ valid_roll_day(t, t.end_date)
         /\ valid_roll_day(t, t.last_regular_end_date)
         /\ valid_roll_day(t, t.first_regular_start_date)
    ELSE IF t.stub_convention \in {SHORT_FINAL, LONG_FINAL}
    THEN /\ valid_roll_day(t, t.start_date)
         /\ valid_roll_day(t, t.last_regular_end_date)
         /\ valid_roll_day(t, t.first_regular_start_date)
    ELSE /\ valid_roll_day(t, t.first_regular_start_date)
         /\ valid_roll_day(t, t.last_regular_end_date)

\* pre_validation from its second test on; r2 is the outcome of reading
\* first_regular_start_date
pre_validation_after_first(r2) ==
    IF r2.exc # OK THEN r2
    ELSE IF r2.s.first_regular_start_date = None
    THEN [s |-> r2.s, exc |-> E_TYPE]
    ELSE IF ~(r2.s.last_regular_end_date >= r2.s.first_regular_start_date)
    THEN [s |-> r2.s, exc |-> E_ORDER_LAST]
    ELSE IF ~(r2.s.first_regular_start_date >= r2.s.start_date)
    THEN [s |-> r2.s, exc |-> E_ORDER_FIRST]
    ELSE IF ~pre_validation_rolls_ok(r2.s)
    THEN [s |-> r2.s, exc |-> E_INCOMPATIBLE]
    ELSE [s |-> r2.s, exc |-> OK]

\* pre_validation from its first test on; r1 is the outcome of reading
\* last_regular_end_date
pre_validation_after_last(r1) ==
    IF r1.exc # OK THEN r1
    ELSE IF r1.s.last_regular_end_date = None
    THEN [s |-> r1.s, exc |-> E_TYPE]
    ELSE IF ~(r1.s.end_date >= r1.s.last_regular_end_date)
    THEN [s |-> r1.s, exc |-> E_ORDER_END]
    ELSE CHOOSE validated \in
             {pre_validation_after_first(r2) :
                  r2 \in {calculate_first_regular_start_date(r1.s)}} : TRUE

\* [s |-> the schedule afterwards, exc |-> the outcome].  The properties
\* last_regular_end_date and first_regular_start_date run their calculate_*
\* method on every read; comparing a date with None raises TypeError.
pre_validation(s) ==
    CHOOSE validated \in
        {pre_validation_after_last(r1) :
             r1 \in {calculate_last_regular_end_date(s)}} : TRUE

\* unadj_end after "if self.roll_convention <= get_length_of_month(unadj_end)"
\* (the property roll_convention: the derived convention when none is set)
ClampToRollDay(s, d) ==
    LET roll == roll_convention(s).roll_convention
    IN  IF roll <= get_length_of_month(d)
        THEN (IF ValidDate(Year(d), Month(d), roll)
              THEN Date(Year(d), Month(d), roll)
              ELSE RAISE)
        ELSE d

\* add_period raised: nothing is clamped
unadj_end_clamp(s, added) ==
    IF added = RAISE THEN RAISE ELSE ClampToRollDay(s, added)

\* unadj_end of the loop body: the date one frequency after (length > 0) or
\* before (length < 0) current, moved to the roll day when the month has it
unadj_end(s, current, length) ==
    unadj_end_clamp(s, add_period(current, length, s.units))

\* the while loop of build_short_final, appending to the list acc:
\* [periods |-> the list afterwards, exc |-> the outcome, current |-> current]
RECURSIVE short_final_loop(_, _, _)
short_final_body(current, acc, s, generated) ==
    IF generated = RAISE
    THEN [periods |-> acc, exc |-> E_DAY_RANGE, current |-> current]
    ELSE IF ~valid_roll_day(s, generated)
    THEN [periods |-> acc, exc |-> E_ROLL_DAY, current |-> current]
    ELSE short_final_loop(
             generated,
             Append(acc,
                    SchedulePeriod(
                        current, generated,
                        adjust(current, s.business_day_convention),
                        adjust(generated, s.business_day_convention))),
             s)

short_final_loop(current, acc, s) ==
    IF current < s.last_regular_end_date
    THEN short_final_body(current, acc, s, unadj_end(s, current, s.num))
    ELSE [periods |-> acc, exc |-> OK, current |-> current]

\* [periods |-> the list afterwards, exc |-> the outcome]
build_short_final(s, periods) ==
    LET last_period ==
            SchedulePeriod(
                s.last_regular_end_date, s.end_date,
                adjust(s.last_regular_end_date, s.business_day_convention),
                adjust(s.end_date, s.business_day_convention))
        finish(w) ==
            IF w.exc # OK THEN [periods |-> w.periods, exc |-> w.exc]
            ELSE [periods |-> Append(w.periods, last_period), exc |-> OK]
    IN  finish(short_final_loop(s.start_date, periods, s))

\* list.reverse()
RECURSIVE Reverse(_)
Reverse(seq) ==
    IF seq = <<>> THEN <<>> ELSE Append(Reverse(Tail(seq)), Head(seq))

\* the while loop of build_short_initial
RECURSIVE short_initial_loop(_, _, _)
short_initial_body(current, acc, s, generated) ==
    IF generated = RAISE
    THEN [periods |-> acc, exc |-> E_DAY_RANGE, current |-> current]
    ELSE IF ~valid_roll_day(s, generated)
    THEN [periods |-> acc, exc |-> E_ROLL_DAY, current |-> current]
    ELSE short_initial_loop(
             generated,
             Append(acc,
                    SchedulePeriod(
                        generated, current,
                        adjust(generated, s.business_day_convention),
                        adjust(current, s.business_day_convention))),
             s)

short_initial_loop(current, acc, s) ==
    IF current > s.first_regular_start_date
    THEN short_initial_body(current, acc, s,
                            unadj_end(s, current, (0 - 1) * s.num))
    ELSE [periods |-> acc, exc |-> OK, current |-> current]

build_short_initial(s, periods) ==
    LET first_period ==
            SchedulePeriod(
                s.start_date, s.first_regular_start_date,
                adjust(s.start_date, s.business_day_convention),
                adjust(s.first_regular_start_date, s.business_day_convention))
        finish(w) ==
            IF w.exc # OK THEN [periods |-> w.periods, exc |-> w.exc]
            ELSE [periods |-> Reverse(Append(w.periods, first_period)),
                  exc |-> OK]
    IN  finish(short_initial_loop(s.end_date, periods, s))

RECURSIVE both_loop(_, _, _)
\* both_body without the valid_roll_day check of the generated period end
both_body_unchecked(current, acc, s, generated) ==
    IF generated = RAISE
    THEN [periods |-> acc, exc |-> E_DAY_RANGE, current |-> current]
    ELSE both_loop(
             generated,
             Append(acc,
                    SchedulePeriod(
                        current, generated,
                        adjust(current, s.business_day_convention),
                        adjust(generated, s.business_day_convention))),
             s)

\* the body of the while loop of build_both
both_body(current, acc, s, generated) ==
    IF generated = RAISE
    THEN [periods |-> acc, exc |-> E_DAY_RANGE, current |-> current]
    ELSE IF ~valid_roll_day(s, generated)
    THEN [periods |-> acc, exc |-> E_ROLL_DAY, current |-> current]
    ELSE both_loop(
             generated,
             Append(acc,
                    SchedulePeriod(
                        current, generated,
                        adjust(current, s.business_day_convention),
                        adjust(generated, s.business_day_convention))),
             s)

\* the while loop of build_both
both_loop(current, acc, s) ==
    IF current < s.last_regular_end_date
    THEN both_body(current, acc, s, unadj_end(s, current, s.num))
    ELSE [periods |-> acc, exc |-> OK, current |-> current]

\* build_both without the trailing stub period
build_both_no_trailing(s, periods) ==
    LET first_period ==
            SchedulePeriod(
                s.start_date, s.first_regular_start_date,
                adjust(s.start_date, s.business_day_convention),
                adjust(s.first_regular_start_date, s.business_day_convention))
        with_first == IF s.start_date # s.first_regular_start_date
                      THEN Append(periods, first_period)
                      ELSE periods
        finish(w) ==
            IF w.exc # OK THEN [periods |-> w.periods, exc |-> w.exc]
            ELSE IF w.current # s.last_regular_end_date
            THEN [periods |-> w.periods, exc |-> E_LAND]
            ELSE [periods |-> w.periods, exc |-> OK]
    IN  finish(both_loop(s.first_regular_start_date, with_first, s))

\* build_both without the check that the walk lands on last_regular_end_date
build_both_no_land_check(s, periods) ==
    LET first_period ==
            SchedulePeriod(
                s.start_date, s.first_regular_start_date,
                adjust(s.start_date, s.business_day_convention),
                adjust(s.first_regular_start_date, s.business_day_convention))
        with_first == IF s.start_date # s.first_regular_start_date
                      THEN Append(periods, first_period)
                      ELSE periods
        last_period ==
            SchedulePeriod(
                s.last_regular_end_date, s.end_date,
                adjust(s.last_regular_end_date, s.business_day_convention),
                adjust(s.end_date, s.business_day_convention))
        finish(w) ==
            IF w.exc # OK THEN [periods |-> w.periods, exc |-> w.exc]
            ELSE IF s.last_regular_end_date # s.end_date
            THEN [periods |-> Append(w.periods, last_period), exc |-> OK]
            ELSE [periods |-> w.periods, exc |-> OK]
    IN  finish(both_loop(s.first_regular_start_date, with_first, s))

build_both(s, periods) ==
    LET first_period ==
            SchedulePeriod(
                s.start_date, s.first_regular_start_date,
                adjust(s.start_date, s.business_day_convention),
                adjust(s.first_regular_start_date, s.business_day_convention))
        with_first == IF s.start_date # s.first_regular_start_date
                      THEN Append(periods, first_period)
                      ELSE periods
        last_period ==
            SchedulePeriod(
                s.last_regular_end_date, s.end_date,
                adjust(s.last_regular_end_date, s.business_day_convention),
                adjust(s.end_date, s.business_day_convention))
        finish(w) ==
            IF w.exc # OK THEN [periods |-> w.periods, exc |-> w.exc]
            ELSE IF w.current # s.last_regular_end_date
            THEN [periods |-> w.periods, exc |-> E_LAND]
            ELSE IF s.last_regular_end_date # s.end_date
            THEN [periods |-> Append(w.periods, last_period), exc |-> OK]
            ELSE [periods |-> w.periods, exc |-> OK]
    IN  finish(both_loop(s.first_regular_start_date, with_first, s))

\* the builder of the stub convention, after pre_validation returned v;
\* NONE, LONG_INITIAL and LONG_FINAL have no builder.
build_by_stub_convention(v, periods) ==
    IF v.exc # OK THEN [periods |-> periods, exc |-> v.exc]
    ELSE IF v.s.stub_convention = SHORT_FINAL
    THEN build_short_final(v.s, periods)
    ELSE IF v.s.stub_convention = SHORT_INITIAL
    THEN build_short_initial(v.s, periods)
    ELSE IF v.s.stub_convention = BOTH
    THEN build_both(v.s, periods)
    ELSE [periods |-> periods, exc |-> OK]

build_schedule_periods_result(v, b) ==
    [s |-> v.s, periods |-> b.periods, exc |-> b.exc]

\* [s, periods, exc]: pre_validation, then the builder
build_schedule_periods_after(v, periods) ==
    build_schedule_periods_result(v, build_by_stub_convention(v, periods))

build_schedule_periods(s, periods) ==
    build_schedule_periods_after(pre_validation(s), periods)

\* the property Schedule.schedule_periods
schedule_periods_property(s, periods) ==
    IF Len(periods) = 0
    THEN build_schedule_periods(s, periods)
    ELSE [s |-> s, periods |-> periods, exc |-> OK]

\* get_period(i): [s, periods, exc, value]
get_period(s, periods, i) ==
    LET index(r) ==
            IF r.exc # OK THEN r
            ELSE IF i + 1 > Len(r.periods)
            THEN [s |-> r.s, periods |-> r.periods, exc |-> E_INDEX]
            ELSE r
    IN  index(schedule_periods_property(s, periods))

\* __repr__ after reading last_regular_end_date with outcome r2
repr_after_last(periods, r2) ==
    IF r2.exc # OK
    THEN [s |-> r2.s, periods |-> periods, exc |-> r2.exc]
    ELSE IF r2.s.last_regular_end_date = None
    THEN [s |-> r2.s, periods |-> periods, exc |-> E_TYPE]
    ELSE schedule_periods_property(roll_convention(r2.s), periods)

\* __repr__ after reading first_regular_start_date with outcome r1
repr_after_first(periods, r1) ==
    IF r1.exc # OK
    THEN [s |-> r1.s, periods |-> periods, exc |-> r1.exc]
    ELSE IF r1.s.first_regular_start_date = None
    THEN [s |-> r1.s, periods |-> periods, exc |-> E_TYPE]
    ELSE repr_after_last(periods, calculate_last_regular_end_date(r1.s))

\* __repr__ reads first_regular_start_date, last_regular_end_date,
\* roll_convention and schedule_periods, in this order
repr(s, periods) ==
    repr_after_first(periods, calculate_first_regular_start_date(s))

\* ------------------------------------------------------------------------
\* fixed_rate_bond_pricer.py: FixedRateBondPricer.__attrs_post_init__
\* ------------------------------------------------------------------------

NoCouponIdx == 0 - 1

\* next(i for i in range(len(periods)) if periods[i].adjusted_end_date > pv_date)
\* (0-based); NoCouponIdx when the generator is exhausted (StopIteration)
first_future_coupon(periods, pv_date) ==
    LET hits == {i \in 1..Len(periods) : periods[i].adjusted_end_date > pv_date}
    IN  IF hits = {} THEN NoCouponIdx
        ELSE (CHOOSE i \in hits : \A j \in hits : i <= j) - 1

\* [s, periods, exc, pricer]
attrs_post_init(pv_date, notionals, s, periods) ==
    LET is_bullet == Len(notionals) = 1
        failed(r, e) ==
            [s |-> r.s, periods |-> r.periods, exc |-> e,
             pricer |-> [alive |-> FALSE, coupon_idx |-> NoCouponIdx,
                         notionals_per_coupon |-> <<>>,
                         notional_repayment |-> <<>>]]
        repayments(r, n, coupon_idx, notionals_per_coupon) ==
            IF coupon_idx = NoCouponIdx THEN failed(r, E_STOP)
            ELSE IF Len(notionals_per_coupon) < n + 1 THEN failed(r, E_INDEX)
            ELSE [s |-> r.s, periods |-> r.periods, exc |-> OK,
                  pricer |-> [alive |-> TRUE, coupon_idx |-> coupon_idx,
                              notionals_per_coupon |-> notionals_per_coupon,
                              notional_repayment |->
                                  [i \in 1..n |->
                                      notionals_per_coupon[i]
                                      - notionals_per_coupon[i + 1]]]]
        init(r) ==
            IF r.exc # OK THEN failed(r, r.exc)
            ELSE repayments(
                     r, Len(r.periods),
                     first_future_coupon(r.periods, pv_date),
                     IF is_bullet
                     THEN [i \in 1..(Len(r.periods) + 1) |->
                              IF i <= Len(r.periods) THEN notionals[1] ELSE 0]
                     ELSE notionals)
    IN  init(schedule_periods_property(s, periods))

\* ------------------------------------------------------------------------
\* The state machine: one Schedule instance and the calls made on it
\* ------------------------------------------------------------------------

VARIABLES
    pc,                \* "new": not constructed; "alive"; "rejected": the constructor raised
    schedule,          \* the attributes of the Schedule instance
    schedule_periods,  \* the list object Schedule._schedule_periods refers to
    pricer,            \* the FixedRateBondPricer built on the schedule
    last,              \* the last call: its name, argument, outcome, the list before it
    builds,            \* number of direct calls of build_schedule_periods
    conversions,       \* number of price conversions made on the pricer
    interpolator,      \* the LinearInterpolator object
    curve,             \* the DiscountingCurve object
    vanna_volga,       \* the VannaVolga object
    arr,               \* the list given to quick_sort
    call_stack,        \* the frames of the calls of quick_sort in progress
    current,           \* the local current of the period walk in progress
    instances,         \* the Schedule objects constructed so far, each with the list its _schedule_periods refers to
    lists              \* the list objects that exist; the first is the one made by field(default=[])

vars ==
    <<pc, schedule, schedule_periods, pricer, last, builds, holiday_dates,
      conversions, interpolator, curve,
      vanna_volga,
      arr,
      call_stack,
      current,
      instances,
      lists>>

\* direct calls of build_schedule_periods per behaviour
MaxBuilds == 1

\* indices 0..MaxIndex are asked of get_period
MaxIndex == 0

StartDates == {20220830, 20230101, 20230315}

EndDates == {20230101, 20230401, 20240101, 20240315}

\* (first_regular_start_date, last_regular_end_date) as supplied
RegularDates ==
    {<<None, None>>, <<20230320, 20231220>>, <<20230129, 20230329>>,
     <<20230315, 20240315>>, <<20230315, 20231215>>,
     <<20230131, 20230331>>}

Frequencies == {<<1, MONTHS>>, <<3, MONTHS>>, <<6, MONTHS>>, <<1, YEARS>>}

StubConventions == {STUB_NONE, SHORT_INITIAL, SHORT_FINAL, BOTH}

RollConventions == {NoRoll, 15}

BusinessDayConventions == {MODIFIED_FOLLOWING}

PvDates == {20230601}

Notionals == {<<100>>, <<100, 60>>}

NoSchedule == Schedule(None, None, None, None, 0, MONTHS, MODIFIED_FOLLOWING,
                       NoRoll, SHORT_FINAL)

NoPricer == [alive |-> FALSE, coupon_idx |-> NoCouponIdx,
             notionals_per_coupon |-> <<>>, notional_repayment |-> <<>>]

\* arg: the index given to get_period, the pv_date given to the pricer
Call(op, arg, exc, before) ==
    [op |-> op, arg |-> arg, exc |-> exc, before |-> before]

\* no LinearInterpolator, no DiscountingCurve has been made
NoInterpolator ==
    [alive |-> FALSE, xs |-> <<>>, ys |-> <<>>, extrapolate |-> FALSE,
     dates |-> FALSE]

NoCurve == [alive |-> FALSE, dates |-> <<>>, dfs |-> <<>>, method |-> ""]

\* a private attribute declared field(init=False) without a default: the
\* slot exists and nothing is bound to it
Unset == [bound |-> FALSE, items |-> <<>>]

\* no VannaVolga has been made
NoVannaVolga ==
    [alive |-> FALSE, fx_option_market_quotes |-> <<>>, spot |-> None,
     foreign_ccy_discounting_curve |-> NoCurve,
     domestic_ccy_discounting_curve |-> NoCurve,
     risk_rev |-> Unset, stdl |-> Unset, vwb |-> Unset]

Init ==
    /\ pc = "new"
    /\ schedule = NoSchedule
    /\ schedule_periods = <<>>
    /\ pricer = NoPricer
    /\ last = Call("none", None, OK, <<>>)
    /\ builds = 0
    /\ conversions = 0
    /\ interpolator = NoInterpolator
    /\ curve = NoCurve
    /\ holiday_dates = generate_london_calendar
    /\ vanna_volga = NoVannaVolga
    /\ arr = <<>>
    /\ call_stack = <<>>
    /\ current = None
    /\ instances = <<>>
    /\ lists = <<<<>>>>

\* Schedule(...): the attrs __init__ assigns the attributes and then runs the
\* validators in attribute order (check_end_date, check_stub_convention).
Construct ==
    /\ pc = "new"
    /\ \E start_date \in StartDates, end_date \in EndDates,
          regular \in RegularDates, frequency \in Frequencies,
          business_day_convention \in BusinessDayConventions,
          roll \in RollConventions, stub_convention \in StubConventions :
          LET e1 == check_end_date(start_date, end_date)
              e2 == check_stub_convention(regular[1], regular[2],
                                          stub_convention)
              exc == IF e1 # OK THEN e1 ELSE e2
          IN  /\ pc' = IF exc = OK THEN "alive" ELSE "rejected"
              /\ schedule' =
                     IF exc = OK
                     THEN Schedule(start_date, end_date, regular[1],
                                   regular[2], frequency[1], frequency[2],
                                   business_day_convention, roll,
                                   stub_convention)
                     ELSE NoSchedule
              /\ last' = Call("Schedule", None, exc, schedule_periods)
    /\ UNCHANGED <<schedule_periods, pricer, builds, holiday_dates, conversions,
                   interpolator, curve, vanna_volga, arr, call_stack,
                   current, instances, lists>>

\* s.roll_convention
ReadRollConvention ==
    /\ pc = "alive"
    /\ schedule' = roll_convention(schedule)
    /\ last' = Call("roll_convention", None, OK, schedule_periods)
    /\ UNCHANGED <<pc, schedule_periods, pricer, builds, holiday_dates,
                   conversions,
                   interpolator, curve, vanna_volga, arr, call_stack,
                   current, instances, lists>>

\* s.first_regular_start_date
ReadFirstRegularStartDate ==
    /\ pc = "alive"
    /\ LET return(r) ==
               /\ schedule' = r.s
               /\ last' = Call("first_regular_start_date", None, r.exc,
                               schedule_periods)
       IN  return(calculate_first_regular_start_date(schedule))
    /\ UNCHANGED <<pc, schedule_periods, pricer, builds, holiday_dates,
                   conversions,
                   interpolator, curve, vanna_volga, arr, call_stack,
                   current, instances, lists>>

\* s.last_regular_end_date
ReadLastRegularEndDate ==
    /\ pc = "alive"
    /\ LET return(r) ==
               /\ schedule' = r.s
               /\ last' = Call("last_regular_end_date", None, r.exc,
                               schedule_periods)
       IN  return(calculate_last_regular_end_date(schedule))
    /\ UNCHANGED <<pc, schedule_periods, pricer, builds, holiday_dates,
                   conversions,
                   interpolator, curve, vanna_volga, arr, call_stack,
                   current, instances, lists>>

\* s.schedule_periods
ReadSchedulePeriods ==
    /\ pc = "alive"
    /\ LET return(r) ==
               /\ schedule' = r.s
               /\ schedule_periods' = r.periods
               /\ last' = Call("schedule_periods", None, r.exc,
                               schedule_periods)
       IN  return(schedule_periods_property(schedule, schedule_periods))
    /\ UNCHANGED <<pc, pricer, builds, holiday_dates, conversions,
                   interpolator, curve, vanna_volga, arr, call_stack,
                   current, instances, lists>>

\* s.get_period(i)
GetPeriod ==
    /\ pc = "alive"
    /\ \E i \in 0..MaxIndex :
          LET return(r) ==
                  /\ schedule' = r.s
                  /\ schedule_periods' = r.periods
                  /\ last' = Call("get_period", i, r.exc, schedule_periods)
          IN  return(get_period(schedule, schedule_periods, i))
    /\ UNCHANGED <<pc, pricer, builds, holiday_dates, conversions,
                   interpolator, curve, vanna_volga, arr, call_stack,
                   current, instances, lists>>

\* s.build_schedule_periods()
BuildSchedulePeriods ==
    /\ pc = "alive"
    /\ builds < MaxBuilds
    /\ LET return(r) ==
               /\ schedule' = r.s
               /\ schedule_periods' = r.periods
               /\ last' = Call("build_schedule_periods", None, r.exc,
                               schedule_periods)
       IN  return(build_schedule_periods(schedule, schedule_periods))
    /\ builds' = builds + 1
    /\ UNCHANGED <<pc, pricer, holiday_dates, conversions, interpolator, curve,
                   vanna_volga, arr, call_stack, current, instances,
                   lists>>

\* repr(s), print(s)
Repr ==
    /\ pc = "alive"
    /\ LET return(r) ==
               /\ schedule' = r.s
               /\ schedule_periods' = r.periods
               /\ last' = Call("__repr__", None, r.exc, schedule_periods)
       IN  return(repr(schedule, schedule_periods))
    /\ UNCHANGED <<pc, pricer, builds, holiday_dates, conversions,
                   interpolator, curve, vanna_volga, arr, call_stack,
                   current, instances, lists>>

\* FixedRateBondPricer(pv_date, FixedRateBond(accrual_schedule=s, notionals))
NewPricer ==
    /\ pc = "alive"
    /\ ~pricer.alive
    /\ \E pv_date \in PvDates, notionals \in Notionals :
          LET return(r) ==
                  /\ schedule' = r.s
                  /\ schedule_periods' = r.periods
                  /\ pricer' = r.pricer
                  /\ last' = Call("FixedRateBondPricer", pv_date, r.exc,
                                  schedule_periods)
          IN  return(attrs_post_init(pv_date, notionals, schedule,
                                     schedule_periods))
    /\ UNCHANGED <<pc, builds, holiday_dates, conversions, interpolator, curve,
                   vanna_volga, arr, call_stack, current, instances,
                   lists>>

Next ==
    \/ Construct
    \/ ReadRollConvention
    \/ ReadFirstRegularStartDate
    \/ ReadLastRegularEndDate
    \/ ReadSchedulePeriods
    \/ GetPeriod
    \/ BuildSchedulePeriods
    \/ Repr
    \/ NewPricer

Spec == Init /\ [][Next]_vars

\* ------------------------------------------------------------------------
\* Properties
\* ------------------------------------------------------------------------

\* The list was empty before the last call and the call built it to the end:
\* IndexError and StopIteration are raised after the build has returned.
FreshBuild ==
    /\ pc = "alive"
    /\ last.before = <<>>
    /\ last.exc \in {OK, E_INDEX, E_STOP}
    /\ schedule_periods # <<>>

\* the frequency in months
FreqMonths(s) == IF s.units = YEARS THEN 12 * s.num ELSE s.num

\* calendar arithmetic: the day `day` (or the last day, if the month is
\* shorter) of the month n months after the month of d
MonthsAfter(d, n, day) ==
    LET idx == Year(d) * 12 + (Month(d) - 1) + n
        y == idx \div 12
        m == (idx % 12) + 1
        len == monthrange(y, m)
    IN  Date(y, m, IF day <= len THEN day ELSE len)

\* the roll convention derived from the dates when none is supplied
DerivedRoll(s) ==
    calculate_roll_convention([s EXCEPT !.roll_convention = NoRoll]).roll_convention

\* the indices of the regular (non-stub) periods of a built list
RegularIndices(s, periods) ==
    IF s.stub_convention = SHORT_FINAL THEN 1..(Len(periods) - 1)
    ELSE IF s.stub_convention = SHORT_INITIAL THEN 2..Len(periods)
    ELSE (IF s.start_date # s.first_regular_start_date THEN 2 ELSE 1)
         ..(IF s.last_regular_end_date # s.end_date
            THEN Len(periods) - 1 ELSE Len(periods))

\* C1: with a month or year frequency, a stub convention of SHORT_FINAL,
\* SHORT_INITIAL or BOTH and the roll convention derived from the dates, the
\* unadjusted end of every built period is the unadjusted start of the next.
C1_ConsecutivePeriodsContiguous ==
    (/\ FreshBuild
     /\ schedule.units \in {MONTHS, YEARS}
     /\ schedule.stub_convention \in {SHORT_FINAL, SHORT_INITIAL, BOTH}
     /\ schedule.roll_convention = DerivedRoll(schedule))
    => \A i \in 1..(Len(schedule_periods) - 1) :
           schedule_periods[i].unadjusted_end_date
               = schedule_periods[i + 1].unadjusted_start_date

\* C2: in a built schedule the first period starts (unadjusted) at start_date
\* and the last period ends (unadjusted) at end_date.
C2_FirstStartLastEnd ==
    FreshBuild
    => /\ schedule_periods[1].unadjusted_start_date = schedule.start_date
       /\ schedule_periods[Len(schedule_periods)].unadjusted_end_date
              = schedule.end_date

\* C2 witness: a BOTH schedule built with a leading stub, regular periods and
\* a trailing stub.
C2_Witness ==
    /\ FreshBuild
    /\ schedule.stub_convention = BOTH
    /\ schedule.start_date # schedule.first_regular_start_date
    /\ schedule.last_regular_end_date # schedule.end_date
    /\ Len(schedule_periods) >= 3

\* C3: when no roll convention was supplied it is derived before the
\* pre-validation runs, so get_period on a fresh instance ends as it does
\* when roll_convention has been read before.
C3_Step ==
    (/\ pc = "alive"
     /\ schedule_periods = <<>>
     /\ last'.op = "get_period")
    => last'.exc = get_period(roll_convention(schedule), schedule_periods,
                              last'.arg).exc

C3_GetPeriodIndependentOfAccessors == [][C3_Step]_vars

\* C4: after a successful build, reading schedule_periods, get_period and a
\* further call of build_schedule_periods leave the list of periods as it is.
C4_Step ==
    (/\ FreshBuild
     /\ last'.op \in {"schedule_periods", "get_period",
                      "build_schedule_periods"})
    => schedule_periods' = schedule_periods

C4_BuildOnce == [][C4_Step]_vars

\* C5: with stub convention NONE, no other regular dates supplied and
\* end_date = start_date + n * frequency (n >= 1) on the roll day, reading the periods gives the n regular periods
\* [start + k*f, start + (k+1)*f], and a pricer with pv_date before the
\* schedule end finds its first future coupon period.
C5_Regular(s) ==
    /\ s.stub_convention = STUB_NONE
    /\ s.units \in {MONTHS, YEARS}
    /\ s.roll_convention = Day(s.start_date)
    /\ s.first_regular_start_date \in {None, s.start_date}
    /\ s.last_regular_end_date \in {None, s.end_date}
    /\ \E n \in 1..24 :
           s.end_date = MonthsAfter(s.start_date, n * FreqMonths(s),
                                    Day(s.start_date))

C5_Expected(s) ==
    LET n == CHOOSE n \in 1..24 :
                 s.end_date = MonthsAfter(s.start_date, n * FreqMonths(s),
                                          Day(s.start_date))
    IN  [k \in 1..n |->
            <<MonthsAfter(s.start_date, (k - 1) * FreqMonths(s),
                          Day(s.start_date)),
              MonthsAfter(s.start_date, k * FreqMonths(s),
                          Day(s.start_date))>>]

C5_NoStubRegularPeriods ==
    (/\ pc = "alive"
     /\ last.before = <<>>
     /\ C5_Regular(schedule))
    => /\ last.op = "schedule_periods"
          => /\ last.exc = OK
             /\ [k \in 1..Len(schedule_periods) |->
                    <<schedule_periods[k].unadjusted_start_date,
                      schedule_periods[k].unadjusted_end_date>>]
                    = C5_Expected(schedule)
       /\ (last.op = "FixedRateBondPricer" /\ last.arg < schedule.end_date)
          => /\ last.exc \in {OK, E_INDEX}
             /\ first_future_coupon(schedule_periods, last.arg) # NoCouponIdx

\* the claim's roll-day rule for a regular period boundary
OnRollDay(roll, d) ==
    \/ Day(d) = roll
    \/ roll = 30 /\ Month(d) = 2 /\ Day(d) \in {28, 29}
    \/ roll = 29 /\ Month(d) = 2 /\ Day(d) = 28 /\ ~is_leap_year(Year(d))
    \/ roll = 31 /\ Day(d) = 30 /\ Month(d) \in {2, 4, 6, 9, 11}

\* the regular period boundary the walk generates next after the periods
\* built so far (forward for SHORT_FINAL and BOTH, backward for SHORT_INITIAL)
C6_NextBoundary(s, periods) ==
    LET n == Len(periods)
        forward == s.stub_convention \in {SHORT_FINAL, BOTH}
        anchor == IF n > 0
                  THEN (IF forward THEN periods[n].unadjusted_end_date
                        ELSE periods[n].unadjusted_start_date)
                  ELSE IF s.stub_convention = SHORT_FINAL THEN s.start_date
                  ELSE IF s.stub_convention = BOTH
                  THEN s.first_regular_start_date
                  ELSE s.end_date
    IN  ClampToRollDay(s, add_period(anchor,
                                     IF forward THEN s.num ELSE (0 - 1) * s.num,
                                     s.units))

\* C6: every boundary of a regular (non-stub) period of a built schedule is on
\* the roll day: its day is the roll day, or roll 30 and Feb 28/29, or roll 29
\* and Feb 28 of a non-leap year, or EOM and day 30 of month 2, 4, 6, 9 or 11;
\* a build that raises on a roll day was about to generate a boundary that is
\* not on the roll day.
C6_RegularBoundariesOnRollDay ==
    /\ FreshBuild
       => \A i \in RegularIndices(schedule, schedule_periods) :
              /\ OnRollDay(schedule.roll_convention,
                           schedule_periods[i].unadjusted_start_date)
              /\ OnRollDay(schedule.roll_convention,
                           schedule_periods[i].unadjusted_end_date)
    /\ (pc = "alive" /\ last.before = <<>> /\ last.exc = E_ROLL_DAY)
       => ~OnRollDay(schedule.roll_convention,
                     C6_NextBoundary(schedule, schedule_periods))

\* C6 witness: a schedule built under roll day 29 with a regular period that
\* ends on Feb 28 of a non-leap year.
C6_Witness ==
    /\ FreshBuild
    /\ schedule.roll_convention = 29
    /\ \E i \in RegularIndices(schedule, schedule_periods) :
           LET d == schedule_periods[i].unadjusted_end_date
           IN  Month(d) = 2 /\ Day(d) = 28 /\ ~is_leap_year(Year(d))

\* the periods the claim C7 describes: regular periods from start_date in
\* steps of the frequency, then the final period up to end_date
C7_Expected(s) ==
    LET f == FreqMonths(s)
        at(k) == MonthsAfter(s.start_date, k * f, Day(s.start_date))
        ks == {k \in 0..24 : at(k) < s.end_date}
        kmax == CHOOSE k \in ks : \A j \in ks : j <= k
        mk(a, b) == SchedulePeriod(a, b,
                                   adjust(a, s.business_day_convention),
                                   adjust(b, s.business_day_convention))
    IN  [i \in 1..(kmax + 1) |->
            IF i <= kmax THEN mk(at(i - 1), at(i))
            ELSE mk(at(kmax), s.end_date)]

\* C7: SHORT_FINAL with a month frequency and the roll day equal to
\* the start day builds exactly the regular periods [start + k*f,
\* start + (k+1)*f] up to the latest start + k*f before end_date, then the
\* final period from there to end_date, each adjusted by adjust().
C7_ShortFinalPeriods ==
    (/\ FreshBuild
     /\ schedule.stub_convention = SHORT_FINAL
     /\ schedule.units = MONTHS
     /\ schedule.roll_convention = Day(schedule.start_date))
    => schedule_periods = C7_Expected(schedule)

\* the periods the claim C8 describes, in chronological order
C8_Expected(s) ==
    LET f == FreqMonths(s)
        at(k) == MonthsAfter(s.end_date, (0 - k) * f, Day(s.end_date))
        ks == {k \in 0..24 : at(k) > s.start_date}
        kmax == CHOOSE k \in ks : \A j \in ks : j <= k
        mk(a, b) == SchedulePeriod(a, b,
                                   adjust(a, s.business_day_convention),
                                   adjust(b, s.business_day_convention))
    IN  [i \in 1..(kmax + 1) |->
            IF i = 1 THEN mk(s.start_date, at(kmax))
            ELSE mk(at(kmax + 2 - i), at(kmax + 1 - i))]

\* C8: SHORT_INITIAL with a month frequency, the roll day equal to the end day
\* and no other regular dates supplied gives, in chronological order, the
\* initial period from start_date to the earliest end - k*f after start_date
\* and then the regular periods up to end_date, also when the backward walk
\* crosses a year boundary or lands on December.
C8_ShortInitialPeriods ==
    (/\ pc = "alive"
     /\ last.op \in {"schedule_periods", "get_period"}
     /\ last.before = <<>>
     /\ schedule.stub_convention = SHORT_INITIAL
     /\ schedule.units = MONTHS
     /\ schedule.roll_convention = Day(schedule.end_date)
     /\ schedule.start_date < schedule.end_date
     /\ schedule.first_regular_start_date
            \in {None, C8_Expected(schedule)[1].unadjusted_end_date}
     /\ schedule.last_regular_end_date \in {None, schedule.end_date})
    => /\ last.exc \in {OK, E_INDEX}
       /\ schedule_periods = C8_Expected(schedule)

\* the end of the regular period that starts at d: the frequency added to d
\* and, where the roll day exists in that month, the day set to the roll day
C9_StepEnd(s, d) ==
    LET a == MonthsAfter(d, FreqMonths(s), Day(d))
    IN  IF s.roll_convention <= monthrange(Year(a), Month(a))
        THEN Date(Year(a), Month(a), s.roll_convention)
        ELSE a

\* C9: BOTH builds the leading stub [start_date, first_regular_start_date]
\* only when the two differ, regular periods from first_regular_start_date
\* that land exactly on last_regular_end_date, each ending one frequency step
\* after its start, and the trailing stub [last_regular_end_date, end_date]
\* only when the two differ; no period is degenerate; a walk that steps over
\* last_regular_end_date makes the build raise.
C9_BothStubs ==
    LET s == schedule
        p == schedule_periods
        n == Len(p)
        lead == s.start_date # s.first_regular_start_date
        trail == s.last_regular_end_date # s.end_date
        lo == IF lead THEN 2 ELSE 1
        hi == IF trail THEN n - 1 ELSE n
    IN  /\ (FreshBuild /\ s.stub_convention = BOTH
            /\ s.units \in {MONTHS, YEARS})
           => /\ lead => /\ p[1].unadjusted_start_date = s.start_date
                         /\ p[1].unadjusted_end_date
                                = s.first_regular_start_date
              /\ trail => /\ p[n].unadjusted_start_date
                                 = s.last_regular_end_date
                          /\ p[n].unadjusted_end_date = s.end_date
              /\ IF lo <= hi
                 THEN /\ p[lo].unadjusted_start_date
                             = s.first_regular_start_date
                      /\ p[hi].unadjusted_end_date = s.last_regular_end_date
                 ELSE s.first_regular_start_date = s.last_regular_end_date
              /\ \A i \in lo..hi :
                     p[i].unadjusted_end_date
                         = C9_StepEnd(s, p[i].unadjusted_start_date)
              /\ \A i \in 1..n :
                     p[i].unadjusted_start_date < p[i].unadjusted_end_date
        /\ (/\ pc = "alive"
            /\ last.before = <<>>
            /\ last.exc = E_LAND)
           => /\ s.stub_convention = BOTH
              /\ n >= 1
              /\ p[n].unadjusted_end_date > s.last_regular_end_date

\* C9 witness: a BOTH schedule built with a leading stub, at least two regular
\* periods and a trailing stub.
C9_Witness ==
    /\ FreshBuild
    /\ schedule.stub_convention = BOTH
    /\ schedule.start_date # schedule.first_regular_start_date
    /\ schedule.last_regular_end_date # schedule.end_date
    /\ Len(schedule_periods) >= 4

\* C10: a constructed Schedule has end_date >= start_date, both regular dates
\* when the stub convention is BOTH, and supplied regular dates ordered
\* start_date <= first_regular_start_date <= last_regular_end_date <= end_date.
C10_ValidatedAtConstruction ==
    (pc = "alive" /\ last.op = "Schedule")
    => LET s == schedule
           frs == s.first_regular_start_date
           lre == s.last_regular_end_date
       IN  /\ s.end_date >= s.start_date
           /\ s.stub_convention = BOTH => (frs # None /\ lre # None)
           /\ frs # None => (s.start_date <= frs /\ frs <= s.end_date)
           /\ lre # None => (s.start_date <= lre /\ lre <= s.end_date)
           /\ (frs # None /\ lre # None) => frs <= lre

\* ------------------------------------------------------------------------
\* The date arithmetic on its own: calls of add_period and adjust
\* ------------------------------------------------------------------------

\* the years and months the dates given to add_period and adjust lie in:
\* Christmas and New Year, the end of February of a leap year and of a
\* common year, the early-May bank holiday, a mid-month date
DateInputs ==
    {Date(2023, 12, d) : d \in 22..31} \cup {Date(2024, 1, d) : d \in 1..3}
    \cup {Date(2024, 2, d) : d \in 28..29} \cup {Date(2023, 2, 28)}
    \cup {Date(2023, 4, d) : d \in 28..30} \cup {Date(2023, 5, d) : d \in 1..2}
    \cup {Date(2023, 1, 31), Date(2023, 3, 15), Date(2023, 3, 1)}

\* the lengths given with MONTHS and YEARS
PeriodLengths == {0 - 25, 0 - 13, 0 - 12, 0 - 3, 0 - 1, 0, 1, 9, 10, 12, 13, 24}

\* the lengths given with BUSINESS_DAYS
MaxBusinessDays == 3

AllBusinessDayConventions ==
    {NO_ADJUST, FOLLOWING, MODIFIED_FOLLOWING, PRECEDING, MODIFIED_PRECEDING}

\* a call of a function: its name, its arguments, its outcome and its value
Returned(op, arg, exc, value) ==
    [op |-> op, arg |-> arg, exc |-> exc, before |-> <<>>, value |-> value]

\* add_period(start, length, period, holiday_calendar)
AddPeriod ==
    /\ \E start \in DateInputs, period \in {MONTHS, YEARS, BUSINESS_DAYS} :
       \E length \in IF period = BUSINESS_DAYS
                     THEN (0 - MaxBusinessDays)..MaxBusinessDays
                     ELSE PeriodLengths :
       \E end \in {add_period(start, length, period)} :
          last' = Returned("add_period", <<start, length, period>>,
                           IF end = RAISE THEN E_DAY_RANGE ELSE OK, end)
    /\ UNCHANGED <<pc, schedule, schedule_periods, pricer, builds,
                   holiday_dates, conversions, interpolator, curve,
                   vanna_volga, arr, call_stack, current, instances,
                   lists>>

\* adjust(unadjusted_date, bus_day_convention, holiday_calendar)
Adjust ==
    /\ \E unadjusted_date \in DateInputs,
          bus_day_convention \in AllBusinessDayConventions :
          last' = Returned("adjust", <<unadjusted_date, bus_day_convention>>,
                           OK, adjust(unadjusted_date, bus_day_convention))
    /\ UNCHANGED <<pc, schedule, schedule_periods, pricer, builds,
                   holiday_dates, conversions, interpolator, curve,
                   vanna_volga, arr, call_stack, current, instances,
                   lists>>

NextDates == AddPeriod \/ Adjust

SpecDates == Init /\ [][NextDates]_vars

\* C11: add_period(d, n, MONTHS) never raises and returns the day
\* min(d.day, length of the month) of the month n months from the month of d;
\* add_period(d, n, YEARS) never raises and returns the same month and day n
\* years on, with Feb 29 clamped to Feb 28.
C11_AddMonthsAndYears ==
    (last.op = "add_period" /\ last.arg[3] \in {MONTHS, YEARS}) =>
        /\ last.exc = OK
        /\ last.value =
               MonthsAfter(last.arg[1],
                           IF last.arg[3] = YEARS THEN 12 * last.arg[2]
                           ELSE last.arg[2],
                           Day(last.arg[1]))

\* the first business day after d (step 1) or before d (step -1); no run of
\* holidays is longer than a week
NearestBusinessDay(d, step) ==
    AddDays(d, step * (CHOOSE k \in 1..7 :
                           /\ ~is_holiday(AddDays(d, step * k))
                           /\ \A j \in 1..(k - 1) :
                                  is_holiday(AddDays(d, step * j))))

\* C12: adjust(d, convention) is d when d is not a holiday; otherwise, with
\* F the next and P the previous business day, it is d for NO_ADJUST, F for
\* FOLLOWING, P for PRECEDING, F for MODIFIED_FOLLOWING unless F is in
\* another month (then P), P for MODIFIED_PRECEDING unless P is in another
\* month (then F).
C12_Adjust ==
    last.op = "adjust" =>
        LET d == last.arg[1]
            convention == last.arg[2]
            F == NearestBusinessDay(d, 1)
            P == NearestBusinessDay(d, 0 - 1)
        IN  /\ last.exc = OK
            /\ last.value =
                   IF ~is_holiday(d) THEN d
                   ELSE IF convention = NO_ADJUST THEN d
                   ELSE IF convention = FOLLOWING THEN F
                   ELSE IF convention = PRECEDING THEN P
                   ELSE IF convention = MODIFIED_FOLLOWING
                   THEN (IF Month(F) # Month(d) THEN P ELSE F)
                   ELSE (IF Month(P) # Month(d) THEN F ELSE P)

\* a holiday at the end of a month, rolled back by MODIFIED_FOLLOWING
C12_Witness ==
    /\ last.op = "adjust"
    /\ last.arg[2] = MODIFIED_FOLLOWING
    /\ is_holiday(last.arg[1])
    /\ Month(NearestBusinessDay(last.arg[1], 1)) # Month(last.arg[1])
    /\ last.value = NearestBusinessDay(last.arg[1], 0 - 1)

\* the number of business days strictly after start up to and including end
\* (end after start), or from end up to but excluding start (end before)
BusinessDaysBetween(start, end) ==
    LET days == toordinal(end) - toordinal(start)
        step == IF days >= 0 THEN 1 ELSE 0 - 1
    IN  Cardinality({k \in 1..(step * days) :
                         ~is_holiday(AddDays(start, step * k))})

\* C13: add_period(start, n, BUSINESS_DAYS) is start for n = 0; for n # 0 it
\* is a business day on the side of start that the sign of n names, and
\* exactly |n| business days lie between start (exclusive) and it (inclusive).
C13_AddBusinessDays ==
    (last.op = "add_period" /\ last.arg[3] = BUSINESS_DAYS) =>
        LET start == last.arg[1]
            n == last.arg[2]
        IN  /\ last.exc = OK
            /\ n = 0 => last.value = start
            /\ n > 0 => last.value > start
            /\ n < 0 => last.value < start
            /\ n # 0 => /\ ~is_holiday(last.value)
                        /\ BusinessDaysBetween(start, last.value)
                               = IF n > 0 THEN n ELSE 0 - n

\* a walk of two business days that steps over holidays
C13_Witness ==
    /\ last.op = "add_period"
    /\ last.arg[3] = BUSINESS_DAYS
    /\ last.arg[2] \in {2, 0 - 2}
    /\ \E d \in {toordinal(last.value) - toordinal(last.arg[1])} :
          d > 3 \/ d < 0 - 3

\* ------------------------------------------------------------------------
\* fixed_rate_bond_pricer.py: the prices of a FixedRateBondPricer
\* ------------------------------------------------------------------------

\* A Python float is modelled by the fraction n/d (lowest terms, d > 0) that
\* the computation gives in real arithmetic, and by e, a bound on the rounding
\* error the float carries, in units of 2^-53 relative to n/d. The result of
\* an operation is exact when its operands are and it is a binary fraction;
\* otherwise the operation rounds once more.
RECURSIVE GCD(_, _)
GCD(a, b) == IF b = 0 THEN a ELSE GCD(b, a % b)

Abs(x) == IF x < 0 THEN 0 - x ELSE x

Max(a, b) == IF a >= b THEN a ELSE b

RECURSIVE IsPowerOfTwo(_)
IsPowerOfTwo(d) == d = 1 \/ (d % 2 = 0 /\ IsPowerOfTwo(d \div 2))

RECURSIVE IntPower(_, _)
IntPower(x, k) == IF k = 0 THEN 1 ELSE x * IntPower(x, k - 1)

Reduced(n, d, g, e) == [n |-> n \div g, d |-> d \div g, e |-> e]

Fraction(n, d, e) ==
    IF d < 0 THEN Reduced(0 - n, 0 - d, GCD(Abs(n), Abs(d)), e)
    ELSE Reduced(n, d, GCD(Abs(n), Abs(d)), e)

\* round to nearest: no error is added to an exact binary fraction, and a
\* result that is 0 in real arithmetic is the float 0.0
RoundedOnce(r) ==
    [r EXCEPT !.e = IF r.n = 0 \/ (r.e = 0 /\ IsPowerOfTwo(r.d)) THEN 0
                    ELSE r.e + 1]

Rounded(n, d, e) == RoundedOnce(Fraction(n, d, e))

\* the float literal n/d, the float of an int (d = 1), int / int
Rat(n, d) == Rounded(n, d, 0)

\* None in a field that holds a number
NoNumber == [n |-> 0, d |-> 0, e |-> 0]

\* a + b (operands of one sign) over the common denominator l
PlusOver(a, b, l) ==
    Rounded(a.n * (l \div a.d) + b.n * (l \div b.d), l, Max(a.e, b.e))

\* a + b, a - b, a * b, a / b, a ** k (k >= 0), a > 0.0; x + 0.0 is x
Plus(a, b) ==
    IF a.n = 0 THEN b
    ELSE IF b.n = 0 THEN a
    ELSE PlusOver(a, b, (a.d \div GCD(a.d, b.d)) * b.d)

Minus(a, b) == Plus(a, [b EXCEPT !.n = 0 - b.n])

Times(a, b) == Rounded(a.n * b.n, a.d * b.d, a.e + b.e)

Over(a, b) == Rounded(a.n * b.d, a.d * b.n, a.e + b.e)

Power(a, k) == Rounded(IntPower(a.n, k), IntPower(a.d, k), k * a.e)

Positive(a) == a.n > 0

\* Thirty360.year_fraction(d_1, d_2), the accrual basis of the bond
year_fraction(d_1, d_2) ==
    LET end_day == IF Day(d_2) = 31 /\ Day(d_1) > 29 THEN 30 ELSE Day(d_2)
        start_day == IF Day(d_1) = 31 THEN 30 ELSE Day(d_1)
    IN  Rat(360 * (Year(d_2) - Year(d_1)) + 30 * (Month(d_2) - Month(d_1))
                + (end_day - start_day),
            360)

\* accrued_interest() of the pricer p over the schedule periods
accrued_interest(p, periods) ==
    LET accrual_start_date == periods[p.coupon_idx + 1].adjusted_start_date
        bond_settle_date == AddDays(p.pv_date, 2)
        accrual_fraction ==
            Times(year_fraction(accrual_start_date, bond_settle_date),
                  Rat(p.frequency, 1))
        notional == Rat(p.notionals_per_coupon[p.coupon_idx + 1], 1)
        full_coupon == Over(Times(notional, p.coupon), Rat(p.frequency, 1))
    IN  Over(Times(full_coupon, accrual_fraction), notional)

\* clean_price_to_dirty_price(): [pricer, exc, value]; None > 0.0 raises
\* TypeError
clean_price_to_dirty_price(p, periods) ==
    IF p.clean_price = NoNumber
    THEN [pricer |-> p, exc |-> E_TYPE, value |-> NoNumber]
    ELSE IF Positive(p.clean_price)
    THEN LET dirty == Plus(p.clean_price, accrued_interest(p, periods))
         IN  [pricer |-> [p EXCEPT !.dirty_price = dirty],
              exc |-> OK, value |-> dirty]
    ELSE [pricer |-> p, exc |-> OK, value |-> NoNumber]

\* dirty_price_to_clean_price(): [pricer, exc, value]
dirty_price_to_clean_price(p, periods) ==
    IF p.dirty_price = NoNumber
    THEN [pricer |-> p, exc |-> E_TYPE, value |-> NoNumber]
    ELSE IF Positive(p.dirty_price)
    THEN LET clean == Plus(p.dirty_price, accrued_interest(p, periods))
         IN  [pricer |-> [p EXCEPT !.clean_price = clean],
              exc |-> OK, value |-> clean]
    ELSE [pricer |-> p, exc |-> OK, value |-> NoNumber]

\* the discount factor of period number num_of_periods
yield_discount_factor(p, yield_to_mat, num_of_periods) ==
    Over(Rat(1, 1),
         Power(Plus(Rat(1, 1), Over(yield_to_mat, Rat(p.frequency, 1))),
               num_of_periods))

\* coupon and repayment of period i (0-based)
period_cash_flow(p, i) ==
    Plus(Times(Over(p.coupon, Rat(p.frequency, 1)),
               Rat(p.notionals_per_coupon[i + 1], 1)),
         Rat(p.notional_repayment[i + 1], 1))

\* the loop of yield_to_clean_price from index i on
RECURSIVE yield_to_clean_price_loop(_, _, _, _, _, _)
yield_to_clean_price_loop(p, yield_to_mat, i, max_iter, num_of_periods, pv_sum) ==
    IF i >= max_iter THEN pv_sum
    ELSE yield_to_clean_price_loop(
             p, yield_to_mat, i + 1, max_iter, num_of_periods + 1,
             Plus(pv_sum,
                  Times(yield_discount_factor(p, yield_to_mat, num_of_periods),
                        period_cash_flow(p, i))))

\* the same computation with the period count starting at 0
yield_to_clean_price_undiscounted_first(p, periods, yield_to_mat) ==
    Over(yield_to_clean_price_loop(p, yield_to_mat, p.coupon_idx,
                                   Len(periods), 0, Rat(0, 1)),
         Rat(p.notionals_per_coupon[p.coupon_idx + 1], 1))

\* yield_to_clean_price(yield_to_mat)
yield_to_clean_price(p, periods, yield_to_mat) ==
    Over(yield_to_clean_price_loop(p, yield_to_mat, p.coupon_idx,
                                   Len(periods), 1, Rat(0, 1)),
         Rat(p.notionals_per_coupon[p.coupon_idx + 1], 1))

E_MUST_SUPPLY == "ValueError: The risk-free discounting curve and z-spread must be supplied!"

\* bool(x) of Python: a DiscountingCurve defines neither __bool__ nor __len__,
\* None and the number 0 are false
truth_of_curve(discounting_curve) == discounting_curve # None

truth_of_number(x) == x # NoNumber /\ x.n # 0

\* the test `not (self.discounting_curve or self.z_spread)` of pv()
pv_missing_input(p) ==
    ~(truth_of_curve(p.discounting_curve) \/ truth_of_number(p.z_spread))

\* pv(): the outcome. Past the test pv() calls add_spread on the curve, a
\* method DiscountingCurve does not have.
pv(p) == IF pv_missing_input(p) THEN E_MUST_SUPPLY ELSE E_ATTRIBUTE

\* FixedRateBondPricer(pv_date, bond, discounting_curve, z_spread,
\* clean_price): the validators of the fields, then __attrs_post_init__;
\* bond is <<notionals, coupon, frequency>> on the accrual schedule s.
\* [s, periods, exc, pricer]
FixedRateBondPricer(pv_date, bond, discounting_curve, z_spread, clean_price, s, periods) ==
    LET built(r) ==
            [s |-> r.s, periods |-> r.periods, exc |-> r.exc,
             pricer |->
                 IF r.exc # OK THEN r.pricer
                 ELSE r.pricer @@
                      [pv_date |-> pv_date, is_bullet |-> Len(bond[1]) = 1,
                       coupon |-> bond[2],
                       frequency |-> bond[3],
                       discounting_curve |-> discounting_curve,
                       z_spread |-> z_spread, clean_price |-> clean_price,
                       dirty_price |-> NoNumber]]
    IN  IF discounting_curve = None
        THEN [s |-> s, periods |-> periods, exc |-> E_TYPE,
              pricer |-> [alive |-> FALSE, coupon_idx |-> NoCouponIdx,
                          notionals_per_coupon |-> <<>>,
                          notional_repayment |-> <<>>]]
        ELSE built(attrs_post_init(pv_date, bond[1], s, periods))

\* ------------------------------------------------------------------------
\* The pricer of a bond on a built schedule, and the calls made on it
\* ------------------------------------------------------------------------

PricerSchedules ==
    {Schedule(20230315, 20240315, None, None, f[1], f[2], MODIFIED_FOLLOWING,
              15, SHORT_FINAL) :
        f \in {<<3, MONTHS>>, <<6, MONTHS>>, <<1, YEARS>>}}

PricerPvDates == {20230313, 20230701, 20231220, 20240401}

PricerNotionals ==
    {<<100>>, <<100, 0>>, <<100, 60>>, <<100, 60, 0>>, <<100, 80, 60, 40>>,
     <<100, 80, 60, 40, 0>>}

Coupons == {Rat(1, 20), Rat(1, 2)}

BondFrequencies == {1, 2}

CleanPrices == {NoNumber, Rat(0, 1), Rat(99, 100), Rat(1, 1)}

ZSpreads == {NoNumber, Rat(0, 1), Rat(1, 400)}

DiscountingCurves == {None, 1}

Yields == Coupons \cup {Rat(0, 1)}

MaxConversions == 2

InitPricer ==
    /\ holiday_dates = generate_london_calendar
    /\ pc = "alive"
    /\ \E s \in PricerSchedules :
          \E b \in {build_schedule_periods(s, <<>>)} :
             /\ b.exc = OK
             /\ schedule = b.s
             /\ schedule_periods = b.periods
    /\ pricer = NoPricer
    /\ last = Returned("build_schedule_periods", None, OK, None)
    /\ builds = 0
    /\ conversions = 0
    /\ interpolator = NoInterpolator
    /\ curve = NoCurve
    /\ vanna_volga = NoVannaVolga
    /\ arr = <<>>
    /\ call_stack = <<>>
    /\ current = None
    /\ instances = <<>>
    /\ lists = <<<<>>>>

NewBondPricer ==
    /\ ~pricer.alive
    /\ \E pv_date \in PricerPvDates, notionals \in PricerNotionals,
          coupon \in Coupons, frequency \in BondFrequencies,
          discounting_curve \in DiscountingCurves, z_spread \in ZSpreads,
          clean_price \in CleanPrices :
          \E r \in {FixedRateBondPricer(pv_date,
                                        <<notionals, coupon, frequency>>,
                                        discounting_curve, z_spread,
                                        clean_price, schedule,
                                        schedule_periods)} :
             /\ pricer' = r.pricer
             /\ last' = Returned("FixedRateBondPricer",
                                 <<pv_date, notionals, discounting_curve>>,
                                 r.exc, None)
    /\ UNCHANGED <<pc, schedule, schedule_periods, builds, holiday_dates,
                   conversions, interpolator, curve, vanna_volga,
                   arr, call_stack, current, instances, lists>>

CleanPriceToDirtyPrice ==
    /\ pricer.alive
    /\ conversions < MaxConversions
    /\ conversions' = conversions + 1
    /\ \E r \in {clean_price_to_dirty_price(pricer, schedule_periods)} :
          /\ pricer' = r.pricer
          /\ last' = Returned("clean_price_to_dirty_price", None, r.exc,
                              r.value)
    /\ UNCHANGED <<pc, schedule, schedule_periods, builds, holiday_dates,
                   interpolator, curve, vanna_volga, arr, call_stack,
                   current, instances, lists>>

DirtyPriceToCleanPrice ==
    /\ pricer.alive
    /\ conversions < MaxConversions
    /\ conversions' = conversions + 1
    /\ \E r \in {dirty_price_to_clean_price(pricer, schedule_periods)} :
          /\ pricer' = r.pricer
          /\ last' = Returned("dirty_price_to_clean_price", None, r.exc,
                              r.value)
    /\ UNCHANGED <<pc, schedule, schedule_periods, builds, holiday_dates,
                   interpolator, curve, vanna_volga, arr, call_stack,
                   current, instances, lists>>

Pv ==
    /\ pricer.alive
    /\ last' = Returned("pv", None, pv(pricer), NoNumber)
    /\ UNCHANGED <<pc, schedule, schedule_periods, pricer, builds,
                   holiday_dates, conversions, interpolator, curve,
                   vanna_volga, arr, call_stack, current, instances,
                   lists>>

YieldToCleanPrice ==
    /\ pricer.alive
    /\ \E yield_to_mat \in Yields :
          last' = Returned("yield_to_clean_price", yield_to_mat, OK,
                           yield_to_clean_price(pricer, schedule_periods,
                                                yield_to_mat))
    /\ UNCHANGED <<pc, schedule, schedule_periods, pricer, builds,
                   holiday_dates, conversions, interpolator, curve,
                   vanna_volga, arr, call_stack, current, instances,
                   lists>>

NextPricer ==
    \/ NewBondPricer
    \/ YieldToCleanPrice
    \/ CleanPriceToDirtyPrice
    \/ DirtyPriceToCleanPrice
    \/ Pv

SpecPricer == InitPricer /\ [][NextPricer]_vars

\* the two floats stand for the same number
SameValue(a, b) == a.n * b.d = b.n * a.d

\* C14: clean_price_to_dirty_price sets the dirty price to the clean price
\* plus the accrued interest, dirty_price_to_clean_price sets the clean price
\* to the dirty price minus the accrued interest (the clean price plus the
\* accrued interest is the dirty price again), and converting a strictly
\* positive clean price to dirty and straight back gives the clean price
\* the pricer started with.
C14_CleanDirtyRoundTrip ==
    [][/\ (last'.op = "clean_price_to_dirty_price" /\ last'.exc = OK
           /\ Positive(pricer.clean_price))
          => SameValue(pricer'.dirty_price,
                       Plus(pricer.clean_price,
                            accrued_interest(pricer, schedule_periods)))
       /\ (last'.op = "dirty_price_to_clean_price" /\ last'.exc = OK
           /\ Positive(pricer.dirty_price))
          => SameValue(Plus(pricer'.clean_price,
                            accrued_interest(pricer, schedule_periods)),
                       pricer.dirty_price)
       /\ (last.op = "clean_price_to_dirty_price" /\ last.exc = OK
           /\ last.value # NoNumber
           /\ last'.op = "dirty_price_to_clean_price")
          => SameValue(pricer'.clean_price, pricer.clean_price)]_vars

\* C15: pv() raises the "must be supplied" error whenever the discounting
\* curve or the z-spread of the pricer is missing, and a z-spread of 0 with a
\* curve counts as supplied.
C15_PvNeedsCurveAndSpread ==
    last.op = "pv"
    => /\ (pricer.discounting_curve = None \/ pricer.z_spread = NoNumber)
          => last.exc = E_MUST_SUPPLY
       /\ (pricer.discounting_curve # None /\ pricer.z_spread = Rat(0, 1))
          => last.exc # E_MUST_SUPPLY

RECURSIVE SumTo(_, _)
SumTo(seq, k) == IF k = 0 THEN 0 ELSE seq[k] + SumTo(seq, k - 1)

\* C16: a pricer made (with a curve, before the last coupon date) for a bond
\* whose notionals are one bullet notional or one notional per period has a
\* repayment array with one entry per period: each entry is the notional of
\* the period minus the notional of the next one, the last entry repays the
\* notional that is left, a bullet repays nothing before the last period, and
\* the entries add up to the initial notional.
C16_NotionalRepayment ==
    LET n == Len(schedule_periods)
        notionals == last.arg[2]
        notional(i) == IF Len(notionals) = 1 THEN notionals[1]
                       ELSE notionals[i]
    IN  (/\ last.op = "FixedRateBondPricer"
         /\ last.arg[3] # None
         /\ Len(notionals) \in {1, n}
         /\ first_future_coupon(schedule_periods, last.arg[1]) # NoCouponIdx)
        => /\ last.exc = OK
           /\ Len(pricer.notional_repayment) = n
           /\ \A i \in 1..(n - 1) :
                 pricer.notional_repayment[i] = notional(i) - notional(i + 1)
           /\ pricer.notional_repayment[n] = notional(n)
           /\ SumTo(pricer.notional_repayment, n) = notional(1)

\* the last call priced a bullet bond at a yield equal to its coupon
PricedAtCoupon ==
    /\ last.op = "yield_to_clean_price"
    /\ pricer.is_bullet
    /\ SameValue(last.arg, pricer.coupon)

\* the coupon periods that remain at the pv date
RemainingPeriods == Len(schedule_periods) - pricer.coupon_idx

\* C17 as stated: a bullet bond priced at a yield equal to its coupon returns
\* exactly the float 1.0, whatever the number of remaining coupon periods.
C17_ExactlyPar == PricedAtCoupon => last.value = Rat(1, 1)

\* C17: a bullet bond priced at a yield equal to its coupon returns par up to
\* floating-point rounding, whatever the number N of remaining coupon
\* periods: the sum the loop computes is 1 in real arithmetic, and the float
\* returned is within 3 * N + 9 roundings of it.
C17_ParUpToRounding ==
    PricedAtCoupon
    => /\ SameValue(last.value, Rat(1, 1))
       /\ last.value.e <= 3 * RemainingPeriods + 9

\* C17 witness: three periods remain after the first coupon date and the
\* result carries rounding error.
C17_Witness ==
    /\ PricedAtCoupon
    /\ pricer.coupon_idx > 0
    /\ RemainingPeriods = 3
    /\ last.value.e > 0

\* ------------------------------------------------------------------------
\* interpolators.py: LinearInterpolator
\* ------------------------------------------------------------------------

\* ExtrapolateIndex
FRONT == 0 - 1

BACK == 0 - 2

E_X_EMPTY == "ValueError: list of x values is empty."

E_X_SORTED == "ValueError: List of x values is not sorted"

E_Y_LEN == "ValueError: List of y values is different len from x values."

E_OUTSIDE == "ValueError: Given range outside of interpolated range to non-extrapolator."

\* b - a of two x values: numbers, or dates (then the days of the timedelta)
x_difference(b, a, dates) ==
    IF dates THEN toordinal(b) - toordinal(a) ELSE b - a

check_x_values(values, dates) ==
    IF Len(values) = 0 THEN E_X_EMPTY
    ELSE IF Len(values) = 1 THEN OK
    ELSE IF \E i \in 1..(Len(values) - 1) :
                x_difference(values[i + 1], values[i], dates) < 0
    THEN E_X_SORTED
    ELSE OK

check_y_values(x_values, values) ==
    IF Len(values) # Len(x_values) THEN E_Y_LEN ELSE OK

\* LinearInterpolator(x_values, y_values, extrapolate): the validators run in
\* the order of the fields. [exc, interpolator]
LinearInterpolator(x_values, y_values, extrapolate, dates) ==
    IF check_x_values(x_values, dates) # OK
    THEN [exc |-> check_x_values(x_values, dates),
          interpolator |-> NoInterpolator]
    ELSE IF check_y_values(x_values, y_values) # OK
    THEN [exc |-> check_y_values(x_values, y_values),
          interpolator |-> NoInterpolator]
    ELSE [exc |-> OK,
          interpolator |-> [alive |-> TRUE, xs |-> x_values, ys |-> y_values,
                            extrapolate |-> extrapolate, dates |-> dates]]

\* the first i of hits, 0-based
first_index(hits) == (CHOOSE i \in hits : \A j \in hits : i <= j) - 1

\* __find_index(x)
find_index(it, x) ==
    IF x < it.xs[1] THEN FRONT
    ELSE IF \E i \in 1..(Len(it.xs) - 1) : it.xs[i] <= x /\ x < it.xs[i + 1]
    THEN first_index({i \in 1..(Len(it.xs) - 1) :
                         it.xs[i] <= x /\ x < it.xs[i + 1]})
    ELSE BACK

\* __convert_to_float(delta): a timedelta becomes delta.days / 365
convert_to_float(delta, dates) ==
    IF dates THEN Rat(delta, 365) ELSE Rat(delta, 1)

\* the interpolation on the interval that starts at index (0-based)
interpolate_at(it, x, index) ==
    Plus(it.ys[index + 1],
         Times(convert_to_float(x_difference(x, it.xs[index + 1], it.dates),
                                it.dates),
               Over(Minus(it.ys[index + 2], it.ys[index + 1]),
                    convert_to_float(x_difference(it.xs[index + 2],
                                                  it.xs[index + 1], it.dates),
                                     it.dates))))

\* __call__(x) once the index is found: [exc, value]
call_with_index(it, x, index) ==
    IF index < 0 /\ ~it.extrapolate
    THEN [exc |-> E_OUTSIDE, value |-> NoNumber]
    ELSE IF index = FRONT THEN [exc |-> OK, value |-> it.ys[1]]
    ELSE IF index = BACK THEN [exc |-> OK, value |-> it.ys[Len(it.ys)]]
    ELSE [exc |-> OK, value |-> interpolate_at(it, x, index)]

\* LinearInterpolator.__call__(x)
call(it, x) == call_with_index(it, x, find_index(it, x))

\* ------------------------------------------------------------------------
\* A LinearInterpolator over numbers and the calls made on it
\* ------------------------------------------------------------------------

MaxKnots == 3

XValues == 0..2

YValues == {1, 3}

Arguments == (0 - 1)..3

\* the floats of a list of ints
floats(values) == [i \in 1..Len(values) |-> Rat(values[i], 1)]

NewLinearInterpolator ==
    /\ ~interpolator.alive
    /\ \E n \in 0..MaxKnots, m \in 0..MaxKnots, extrapolate \in BOOLEAN :
          \E x_values \in [1..n -> XValues], y_values \in [1..m -> YValues] :
             \E r \in {LinearInterpolator(x_values, floats(y_values),
                                          extrapolate, FALSE)} :
                /\ interpolator' = r.interpolator
                /\ last' = Returned("LinearInterpolator", None, r.exc, None)
    /\ UNCHANGED <<pc, schedule, schedule_periods, pricer, builds,
                   holiday_dates, conversions, curve, vanna_volga,
                   arr, call_stack, current, instances, lists>>

CallInterpolator ==
    /\ interpolator.alive
    /\ \E x \in Arguments :
          \E r \in {call(interpolator, x)} :
             last' = Returned("__call__", x, r.exc, r.value)
    /\ UNCHANGED <<pc, schedule, schedule_periods, pricer, builds,
                   holiday_dates, conversions, interpolator, curve,
                   vanna_volga, arr, call_stack, current, instances,
                   lists>>

NextInterpolator == NewLinearInterpolator \/ CallInterpolator

SpecInterpolator == Init /\ [][NextInterpolator]_vars

\* C18: a call of the interpolator at one of its knots returns the y value
\* of that knot, for every knot (the first and the last included) and with
\* extrapolation switched on or off.
C18_ExactAtKnots ==
    last.op = "__call__"
    => \A i \in 1..Len(interpolator.xs) :
          interpolator.xs[i] = last.arg
          => /\ last.exc = OK
             /\ SameValue(last.value, interpolator.ys[i])

\* ------------------------------------------------------------------------
\* discounting_curve.py: DiscountingCurve.discountFactor
\* ------------------------------------------------------------------------

\* DiscountingInterpolationMethod
LINEAR_ON_DISCOUNT_FACTORS == "LINEAR_ON_DISCOUNT_FACTORS"

LINEAR_ON_RATES == "LINEAR_ON_RATES"

LINEAR_ON_LOG_OF_RATES == "LINEAR_ON_LOG_OF_RATES"

LINEAR_ON_LOG_OF_DISCOUNT_FACTORS == "LINEAR_ON_LOG_OF_DISCOUNT_FACTORS"

NATURAL_CUBIC_SPLINE == "NATURAL_CUBIC_SPLINE"

BESSEL_CUBIC_SPLINE == "BESSEL_CUBIC_SPLINE"

FINANCIAL_CUBIC_SPLINE == "FINANCIAL_CUBIC_SPLINE"

QUARTIC_SPLINE == "QUARTIC_SPLINE"

LinearMethods ==
    {LINEAR_ON_DISCOUNT_FACTORS, LINEAR_ON_RATES, LINEAR_ON_LOG_OF_RATES,
     LINEAR_ON_LOG_OF_DISCOUNT_FACTORS}

SplineMethods ==
    {NATURAL_CUBIC_SPLINE, BESSEL_CUBIC_SPLINE, FINANCIAL_CUBIC_SPLINE,
     QUARTIC_SPLINE}

\* the argument discInterpMethod was not given
Omitted == "omitted"

E_NOT_ITERABLE == "TypeError: 'int' object is not iterable"

E_NOT_IMPLEMENTED == "NotImplementedError"

\* DiscountingCurve(dates, discountFactors, discInterpMethod)
DiscountingCurve(dates, discountFactors, discInterpMethod) ==
    [alive |-> TRUE, dates |-> dates, dfs |-> discountFactors,
     method |-> IF discInterpMethod = Omitted THEN FINANCIAL_CUBIC_SPLINE
                ELSE discInterpMethod]

\* the outcomes of discountFactor: an exception, the value None, a float
Raises(exc) == [exc |-> exc, value |-> NoNumber]

ReturnsNone == [exc |-> OK, value |-> NoNumber]

ReturnsValue(value) == [exc |-> OK, value |-> value]

\* interpolator(t), then interpolator(T): the first exception, if any
first_exception(r_t, r_T) == IF r_t.exc # OK THEN r_t.exc ELSE r_T.exc

\* the branch LINEAR_ON_DISCOUNT_FACTORS, given the interpolator built on
\* (dates, dfs): result = df_T / df_t is computed and the branch ends; no
\* later branch matches and the function ends without a return statement
linear_on_discount_factors(made, t, T) ==
    IF made.exc # OK THEN Raises(made.exc)
    ELSE IF first_exception(call(made.interpolator, t),
                            call(made.interpolator, T)) # OK
    THEN Raises(first_exception(call(made.interpolator, t),
                                call(made.interpolator, T)))
    ELSE ReturnsNone

\* P_x = np.exp(interpolator(x)) on the logs of the discount factors: the
\* float that the interval of x and x determine
exp_of_log_at(it, x) == [interval |-> find_index(it, x), at |-> x]

\* P_T / P_t: a float divided by itself is 1.0
quotient(P_T, P_t) ==
    IF P_T = P_t THEN Rat(1, 1) ELSE [dividend |-> P_T, divisor |-> P_t]

\* the branch LINEAR_ON_LOG_OF_DISCOUNT_FACTORS
linear_on_log_of_discount_factors(made, t, T) ==
    IF made.exc # OK THEN Raises(made.exc)
    ELSE IF first_exception(call(made.interpolator, t),
                            call(made.interpolator, T)) # OK
    THEN Raises(first_exception(call(made.interpolator, t),
                                call(made.interpolator, T)))
    ELSE ReturnsValue(quotient(exp_of_log_at(made.interpolator, T),
                               exp_of_log_at(made.interpolator, t)))

\* discountFactor(t, T): [exc, value]
discountFactor(c, t, T) ==
    IF Len(c.dates) = 0 THEN Raises(E_INDEX)
    ELSE IF c.method = LINEAR_ON_DISCOUNT_FACTORS
    THEN linear_on_discount_factors(
             LinearInterpolator(c.dates, c.dfs, FALSE, TRUE), t, T)
    ELSE IF c.method \in {LINEAR_ON_RATES, LINEAR_ON_LOG_OF_RATES}
    THEN Raises(E_NOT_ITERABLE)
    ELSE IF c.method = LINEAR_ON_LOG_OF_DISCOUNT_FACTORS
    THEN linear_on_log_of_discount_factors(
             LinearInterpolator(c.dates, c.dfs, FALSE, TRUE), t, T)
    ELSE ReturnsNone

\* ------------------------------------------------------------------------
\* A DiscountingCurve and the calls of discountFactor made on it
\* ------------------------------------------------------------------------

CurveDates ==
    {<<>>, <<20230101>>, <<20230101, 20230701, 20240101>>,
     <<20230101, 20240101, 20230701>>}

CurveDiscountFactors ==
    {<<Rat(1, 1)>>, <<Rat(1, 1), Rat(97, 100), Rat(19, 20)>>}

QueryDates == {20221201, 20230101, 20230401, 20230701, 20240101, 20240601}

NewDiscountingCurve ==
    /\ ~curve.alive
    /\ \E dates \in CurveDates, discountFactors \in CurveDiscountFactors,
          discInterpMethod \in LinearMethods \cup SplineMethods \cup {Omitted} :
          /\ curve' = DiscountingCurve(dates, discountFactors,
                                       discInterpMethod)
          /\ last' = Returned("DiscountingCurve", discInterpMethod, OK, None)
    /\ UNCHANGED <<pc, schedule, schedule_periods, pricer, builds,
                   holiday_dates, conversions, interpolator,
                   vanna_volga, arr, call_stack, current, instances,
                   lists>>

DiscountFactor ==
    /\ curve.alive
    /\ \E t \in QueryDates, T \in QueryDates :
          \E r \in {discountFactor(curve, t, T)} :
             last' = Returned("discountFactor", <<t, T>>, r.exc, r.value)
    /\ UNCHANGED <<pc, schedule, schedule_periods, pricer, builds,
                   holiday_dates, conversions, interpolator, curve,
                   vanna_volga, arr, call_stack, current, instances,
                   lists>>

NextCurve == NewDiscountingCurve \/ DiscountFactor

SpecCurve == Init /\ [][NextCurve]_vars

\* C19: on a curve with one of the four linear interpolation methods,
\* discountFactor(t, t) returns the number 1 for every date t.
C19_SameDateIsOne ==
    (/\ last.op = "discountFactor"
     /\ last.arg[1] = last.arg[2]
     /\ curve.method \in LinearMethods)
    => /\ last.exc = OK
       /\ last.value = Rat(1, 1)

\* C20: on a curve with one of the spline methods (FINANCIAL_CUBIC_SPLINE is
\* what a curve made without a method has), discountFactor raises the
\* not-implemented error: it returns neither a value nor None.
C20_SplineNotImplemented ==
    (last.op = "discountFactor" /\ curve.method \in SplineMethods)
    => last.exc = E_NOT_IMPLEMENTED

\* ---------------------------------------------------------------------
\* The Vanna-Volga smile (optionslib/models/vanna_volga.py)
\* ---------------------------------------------------------------------

ATM_STRADDLE == "STDL"

TWENTY_FIVE_DELTA_RISK_REVERSAL == "25DRR"

TWENTY_FIVE_DELTA_VEGA_WEIGHTED_BUTTERFLY == "25DFLY"

TWENTY_FIVE_DELTA_CALL == "25DCALL"

E_UNKNOWN_QUOTE == "ValueError: Unknown quote type"

E_QUOTES_MISSING == "ValueError: STDL, RR and FLY quotes must be present for each maturity!"

E_NOT_SUPPLIED == "ValueError: Market quotes for the expiry were not supplied during VV calibration!"

E_ZERO_D == "TypeError: iteration over a 0-d array"

E_KEY == "KeyError"

\* A quote object: the class declares its attributes with two leading
\* underscores, so each is stored under its private name and under no other.
EuropeanVanillaFxOptionQuote(as_of_date, expiry_date, vol, quoteType) ==
    ("__as_of_date" :> as_of_date) @@ ("__expiry_date" :> expiry_date)
        @@ ("__vol" :> vol) @@ ("__quoteType" :> quoteType)

\* object.name: the attribute's value, or AttributeError
getattr(object, name) ==
    IF name \in DOMAIN object THEN ReturnsValue(object[name])
    ELSE Raises(E_ATTRIBUTE)

\* VannaVolga(quotes, spot, foreign curve, domestic curve): the three
\* dictionaries are init=False and have no default
VannaVolga(fx_option_market_quotes, spot, foreign_ccy_discounting_curve, domestic_ccy_discounting_curve) ==
    [alive |-> TRUE, fx_option_market_quotes |-> fx_option_market_quotes,
     spot |-> spot,
     foreign_ccy_discounting_curve |-> foreign_ccy_discounting_curve,
     domestic_ccy_discounting_curve |-> domestic_ccy_discounting_curve,
     risk_rev |-> Unset, stdl |-> Unset, vwb |-> Unset]

\* dt.date.today(), the valuation date of a model without quotes
today == 20230101

\* valuation_date: the as-of date of the first quote
valuation_date(vv) ==
    IF Len(vv.fx_option_market_quotes) = 0 THEN ReturnsValue(today)
    ELSE getattr(vv.fx_option_market_quotes[1], "as_of_date")

\* exp_dates: np.array(self.__stdl.keys()) is an array of no dimension
\* holding the one keys view
exp_dates(vv) ==
    IF ~vv.stdl.bound THEN Raises(E_ATTRIBUTE)
    ELSE ReturnsValue([ndim |-> 0, item |-> DOMAIN vv.stdl.items])

\* exp in self.__risk_rev and exp in self.__stdl and exp in self.__vwb
in_all_buckets(vv, exp) ==
    /\ exp \in DOMAIN vv.risk_rev.items
    /\ exp \in DOMAIN vv.stdl.items
    /\ exp \in DOMAIN vv.vwb.items

\* __check_option_quotes_integrity: all(... for exp in self.exp_dates);
\* an array of no dimension cannot be iterated
check_option_quotes_integrity(vv, dates) ==
    IF dates.exc # OK THEN Raises(dates.exc)
    ELSE IF dates.value.ndim = 0 THEN Raises(E_ZERO_D)
    ELSE IF ~(vv.risk_rev.bound /\ vv.vwb.bound) /\ dates.value.item # {}
    THEN Raises(E_ATTRIBUTE)
    ELSE ReturnsValue(\A exp \in dates.value.item : in_all_buckets(vv, exp))

\* the dictionary a quote type is filed in; "" for the other quote types
target_dict(quote_type) ==
    CASE quote_type = ATM_STRADDLE -> "stdl"
      [] quote_type = TWENTY_FIVE_DELTA_RISK_REVERSAL -> "risk_rev"
      [] quote_type = TWENTY_FIVE_DELTA_VEGA_WEIGHTED_BUTTERFLY -> "vwb"
      [] OTHER -> ""

\* the end of unpack_option_quotes: the integrity check
unpack_check(vv, intact) ==
    IF intact.exc # OK THEN [exc |-> intact.exc, vv |-> vv]
    ELSE IF ~intact.value THEN [exc |-> E_QUOTES_MISSING, vv |-> vv]
    ELSE [exc |-> OK, vv |-> vv]

RECURSIVE unpack_loop(_, _)

\* target_dict[quote.expiry_date] = quote.vol
unpack_store(vv, i, target, vol, expiry_date) ==
    IF vol.exc # OK THEN [exc |-> vol.exc, vv |-> vv]
    ELSE IF expiry_date.exc # OK THEN [exc |-> expiry_date.exc, vv |-> vv]
    ELSE unpack_loop(
             [vv EXCEPT ![target].items =
                  (expiry_date.value :> vol.value) @@ @], i + 1)

\* match quote.quote_type: ...
unpack_quote(vv, i, quote_type) ==
    IF quote_type.exc # OK THEN [exc |-> quote_type.exc, vv |-> vv]
    ELSE IF target_dict(quote_type.value) = ""
    THEN [exc |-> E_UNKNOWN_QUOTE, vv |-> vv]
    ELSE IF ~vv[target_dict(quote_type.value)].bound
    THEN [exc |-> E_ATTRIBUTE, vv |-> vv]
    ELSE unpack_store(vv, i, target_dict(quote_type.value),
                      getattr(vv.fx_option_market_quotes[i], "vol"),
                      getattr(vv.fx_option_market_quotes[i], "expiry_date"))

\* for quote in self.fx_option_market_quotes: from the i-th quote on
unpack_loop(vv, i) ==
    IF i > Len(vv.fx_option_market_quotes)
    THEN unpack_check(vv, check_option_quotes_integrity(vv, exp_dates(vv)))
    ELSE unpack_quote(vv, i,
                      getattr(vv.fx_option_market_quotes[i], "quote_type"))

\* unpack_option_quotes(): the outcome and the object after it
unpack_option_quotes(vv) == unpack_loop(vv, 1)

\* the first exception among the results of sub-expressions, in the order of
\* their evaluation; OK when none raised
first_raised(results) ==
    IF \A i \in DOMAIN results : results[i].exc = OK THEN OK
    ELSE results[CHOOSE i \in DOMAIN results :
                    /\ results[i].exc # OK
                    /\ \A j \in DOMAIN results : j < i => results[j].exc = OK].exc

\* self.__stdl[t] and the like: the slot is read, then the key looked up
item(slot, t) ==
    IF ~slot.bound THEN Raises(E_ATTRIBUTE)
    ELSE IF t \notin DOMAIN slot.items THEN Raises(E_KEY)
    ELSE ReturnsValue(slot.items[t])

sigma_atm(vv, t) == item(vv.stdl, t)

sigma_25d_rr(vv, t) == item(vv.risk_rev, t)

sigma_25d_fly(vv, t) == item(vv.vwb, t)

\* (fly + atm) + 0.50 * rr
call_vol(fly, atm, rr) ==
    IF first_raised(<<fly, atm, rr>>) # OK
    THEN Raises(first_raised(<<fly, atm, rr>>))
    ELSE ReturnsValue(Plus(Plus(fly.value, atm.value),
                           Times(Rat(1, 2), rr.value)))

\* (fly + atm) - 0.50 * rr
put_vol(fly, atm, rr) ==
    IF first_raised(<<fly, atm, rr>>) # OK
    THEN Raises(first_raised(<<fly, atm, rr>>))
    ELSE ReturnsValue(Minus(Plus(fly.value, atm.value),
                            Times(Rat(1, 2), rr.value)))

sigma_25d_call(vv, t) ==
    call_vol(sigma_25d_fly(vv, t), sigma_atm(vv, t), sigma_25d_rr(vv, t))

sigma_25d_put(vv, t) ==
    put_vol(sigma_25d_fly(vv, t), sigma_atm(vv, t), sigma_25d_rr(vv, t))

\* the methods class DiscountingCurve defines
DiscountingCurveMethods == {"discountFactor"}

\* curve.discount_factor(t_1, t_2)
discount_factor(c, t_1, t_2) ==
    IF "discount_factor" \in DiscountingCurveMethods
    THEN discountFactor(c, t_1, t_2)
    ELSE Raises(E_ATTRIBUTE)

\* DayCountBase.days_between, Actual365.year_fraction
days_between(start_inclusive, end_exclusive) ==
    toordinal(end_exclusive) - toordinal(start_inclusive)

Actual365(d_1, d_2) == Rat(days_between(d_1, d_2), 365)

\* fwd_points = foreign_df / domestic_df; fwd = fwd_points * self.spot
forward_points(foreign_df, domestic_df, spot) ==
    IF first_raised(<<foreign_df, domestic_df>>) # OK
    THEN Raises(first_raised(<<foreign_df, domestic_df>>))
    ELSE ReturnsValue(Times(Over(foreign_df.value, domestic_df.value), spot))

forward(vv, t_1, t_2) ==
    forward_points(discount_factor(vv.foreign_ccy_discounting_curve, t_1, t_2),
                   discount_factor(vv.domestic_ccy_discounting_curve, t_1, t_2),
                   vv.spot)

\* scipy.stats.norm.ppf at the quantile 1/4 (-0.6745 to four places)
norm_ppf(p) == [Rat(0 - 27, 40) EXCEPT !.e = p.e + 1]

\* -norm.ppf(0.25 * compound_factor), compound_factor = 1 / discount factor
alpha_of(domestic_df) ==
    IF domestic_df.exc # OK THEN Raises(domestic_df.exc)
    ELSE ReturnsValue(Minus(Rat(0, 1),
             norm_ppf(Times(Rat(1, 4), Over(Rat(1, 1), domestic_df.value)))))

alpha(vv, v_date, exp_date) ==
    alpha_of(discount_factor(vv.domestic_ccy_discounting_curve, v_date,
                             exp_date))

\* np.sqrt of a float whose numerator and denominator are squares
np_sqrt(a) ==
    Rounded(CHOOSE r \in 0..a.n : r * r = a.n,
            CHOOSE r \in 0..a.d : r * r = a.d, a.e)

\* A strike fwd * np.exp(exponent) is kept as the pair of its factors, and
\* np.log(a / b) of two strikes on one forward is the difference of their
\* exponents.
strike(fwd, exponent) == [fwd |-> fwd, exponent |-> exponent]

log_of_quotient(a, b) == Minus(a.exponent, b.exponent)

\* fwd * np.exp(alpha * sigma * np.sqrt(tau) + 0.50 * sigma ** 2 * tau)
strike_25d(fwd, time_to_expiry, a, sigma) ==
    IF first_raised(<<fwd, a, sigma>>) # OK
    THEN Raises(first_raised(<<fwd, a, sigma>>))
    ELSE ReturnsValue(strike(fwd.value,
             Plus(Times(Times(a.value, sigma.value), np_sqrt(time_to_expiry)),
                  Times(Times(Rat(1, 2), Power(sigma.value, 2)),
                        time_to_expiry))))

\* fwd * np.exp(sigma_atm ** 2 / 2 * tau)
strike_atm(fwd, time_to_expiry, sigma) ==
    IF first_raised(<<fwd, sigma>>) # OK
    THEN Raises(first_raised(<<fwd, sigma>>))
    ELSE ReturnsValue(strike(fwd.value,
             Times(Over(Power(sigma.value, 2), Rat(2, 1)), time_to_expiry)))

\* the strikes of an expiry, given the outcome of self.valuation_date
k_atm_call_from(vv, v_date, exp_date) ==
    IF v_date.exc # OK THEN Raises(v_date.exc)
    ELSE strike_atm(forward(vv, v_date.value, exp_date),
                    Actual365(v_date.value, exp_date), sigma_atm(vv, exp_date))

k_25d_call_from(vv, v_date, exp_date) ==
    IF v_date.exc # OK THEN Raises(v_date.exc)
    ELSE strike_25d(forward(vv, v_date.value, exp_date),
                    Actual365(v_date.value, exp_date),
                    alpha(vv, v_date.value, exp_date),
                    sigma_25d_call(vv, exp_date))

k_25d_put_from(vv, v_date, exp_date) ==
    IF v_date.exc # OK THEN Raises(v_date.exc)
    ELSE strike_25d(forward(vv, v_date.value, exp_date),
                    Actual365(v_date.value, exp_date),
                    alpha(vv, v_date.value, exp_date),
                    sigma_25d_put(vv, exp_date))

k_atm_call(vv, exp_date) == k_atm_call_from(vv, valuation_date(vv), exp_date)

k_25d_call(vv, exp_date) == k_25d_call_from(vv, valuation_date(vv), exp_date)

k_25d_put(vv, exp_date) == k_25d_put_from(vv, valuation_date(vv), exp_date)

\* the float nan: a quotient of numpy floats whose divisor is zero raises
\* nothing
nan == [n |-> 0, d |-> 0, e |-> 0 - 1]

\* (log_a * log_b) / (log_c * log_d)
weight(log_a, log_b, log_c, log_d) ==
    IF Times(log_c, log_d).n = 0 THEN nan
    ELSE Over(Times(log_a, log_b), Times(log_c, log_d))

y_1(k_1, k_2, k_3, k) ==
    weight(log_of_quotient(k_2, k), log_of_quotient(k_3, k),
           log_of_quotient(k_3, k_1), log_of_quotient(k_2, k_1))

y_2(k_1, k_2, k_3, k) ==
    weight(log_of_quotient(k, k_1), log_of_quotient(k_3, k),
           log_of_quotient(k_2, k_1), log_of_quotient(k_3, k_2))

y_3(k_1, k_2, k_3, k) ==
    weight(log_of_quotient(k, k_1), log_of_quotient(k, k_2),
           log_of_quotient(k_3, k_1), log_of_quotient(k_3, k_2))

\* y_1 * sigma_1 + y_2 * sigma_2 + y_3 * sigma_3
weighted_vol(w_1, w_2, w_3, sigma_1, sigma_2, sigma_3) ==
    IF nan \in {w_1, w_2, w_3} THEN nan
    ELSE Plus(Plus(Times(w_1, sigma_1), Times(w_2, sigma_2)),
              Times(w_3, sigma_3))

first_order_sum(sigmas, ks, k) ==
    IF first_raised(sigmas \o ks) # OK THEN Raises(first_raised(sigmas \o ks))
    ELSE ReturnsValue(weighted_vol(
             y_1(ks[1].value, ks[2].value, ks[3].value, k),
             y_2(ks[1].value, ks[2].value, ks[3].value, k),
             y_3(ks[1].value, ks[2].value, ks[3].value, k),
             sigmas[1].value, sigmas[2].value, sigmas[3].value))

\* t_exp in self.exp_dates: the one element of the array, a keys view, is
\* compared with the date
contains(array, t_exp) == array.ndim # 0 /\ t_exp \in array.item

\* first_order_approximation(k, t_exp), given the outcome of self.exp_dates
first_order_approximation_in(vv, dates, k, t_exp) ==
    IF dates.exc # OK THEN Raises(dates.exc)
    ELSE IF ~contains(dates.value, t_exp) THEN Raises(E_NOT_SUPPLIED)
    ELSE first_order_sum(
             <<sigma_25d_put(vv, t_exp), sigma_atm(vv, t_exp),
               sigma_25d_call(vv, t_exp)>>,
             <<k_25d_put(vv, t_exp), k_atm_call(vv, t_exp),
               k_25d_call(vv, t_exp)>>, k)

first_order_approximation(vv, k, t_exp) ==
    first_order_approximation_in(vv, exp_dates(vv), k, t_exp)

\* the quote lists hold at most MaxQuotes quotes
MaxQuotes == 3

\* one year and four years of 365 days after the as-of date
VVExpiries == {20240101, 20261231}

\* the quote types and vols of the market: a straddle, a zero and a non-zero
\* risk reversal, a butterfly, and a quote type that is no calibration input
VVQuoteTypesAndVols ==
    {<<ATM_STRADDLE, Rat(1, 10)>>,
     <<TWENTY_FIVE_DELTA_RISK_REVERSAL, Rat(0, 1)>>,
     <<TWENTY_FIVE_DELTA_RISK_REVERSAL, Rat(1, 50)>>,
     <<TWENTY_FIVE_DELTA_VEGA_WEIGHTED_BUTTERFLY, Rat(1, 200)>>,
     <<TWENTY_FIVE_DELTA_CALL, Rat(1, 10)>>}

VVQuotes ==
    {EuropeanVanillaFxOptionQuote(20230101, e, q[2], q[1]) :
        e \in VVExpiries, q \in VVQuoteTypesAndVols}

VVQuoteLists == UNION {[1..n -> VVQuotes] : n \in 0..MaxQuotes}

VVSpots == {Rat(5, 4)}

VVCurves ==
    {DiscountingCurve(<<20230101, 20240101, 20261231>>,
                      <<Rat(1, 1), Rat(1, 1), Rat(1, 1)>>,
                      LINEAR_ON_DISCOUNT_FACTORS)}

\* VannaVolga(quotes, spot, foreign curve, domestic curve)
NewVannaVolga ==
    /\ ~vanna_volga.alive
    /\ \E quotes \in VVQuoteLists, spot \in VVSpots, c \in VVCurves :
          /\ vanna_volga' = VannaVolga(quotes, spot, c, c)
          /\ last' = Returned("VannaVolga", Len(quotes), OK, None)
    /\ UNCHANGED <<pc, schedule, schedule_periods, pricer, builds,
                   holiday_dates, conversions, interpolator, curve,
                   arr, call_stack, current, instances, lists>>

\* vv.unpack_option_quotes()
UnpackOptionQuotes ==
    /\ vanna_volga.alive
    /\ \E r \in {unpack_option_quotes(vanna_volga)} :
          /\ vanna_volga' = r.vv
          /\ last' = Returned("unpack_option_quotes", None, r.exc, None)
    /\ UNCHANGED <<pc, schedule, schedule_periods, pricer, builds,
                   holiday_dates, conversions, interpolator, curve,
                   arr, call_stack, current, instances, lists>>

\* the smile is read once unpack_option_quotes has been called
Unpacked == vanna_volga.alive /\ last.op # "VannaVolga"

\* vv.first_order_approximation(vv.k_atm_call(t_exp), t_exp): the argument
\* is evaluated first
first_order_at_atm(vv, k, t_exp) ==
    IF k.exc # OK THEN Raises(k.exc)
    ELSE first_order_approximation(vv, k.value, t_exp)

FirstOrderApproximation ==
    /\ Unpacked
    /\ \E t_exp \in VVExpiries :
       \E r \in {first_order_at_atm(vanna_volga,
                                    k_atm_call(vanna_volga, t_exp), t_exp)} :
          last' = Returned("first_order_approximation", t_exp, r.exc, r.value)
    /\ UNCHANGED <<pc, schedule, schedule_periods, pricer, builds,
                   holiday_dates, conversions, interpolator, curve,
                   vanna_volga, arr, call_stack, current, instances,
                   lists>>

\* vv.k_25d_put(exp_date), vv.k_25d_call(exp_date)
K25dPut ==
    /\ Unpacked
    /\ \E exp_date \in VVExpiries :
       \E r \in {k_25d_put(vanna_volga, exp_date)} :
          last' = Returned("k_25d_put", exp_date, r.exc, r.value)
    /\ UNCHANGED <<pc, schedule, schedule_periods, pricer, builds,
                   holiday_dates, conversions, interpolator, curve,
                   vanna_volga, arr, call_stack, current, instances,
                   lists>>

K25dCall ==
    /\ Unpacked
    /\ \E exp_date \in VVExpiries :
       \E r \in {k_25d_call(vanna_volga, exp_date)} :
          last' = Returned("k_25d_call", exp_date, r.exc, r.value)
    /\ UNCHANGED <<pc, schedule, schedule_periods, pricer, builds,
                   holiday_dates, conversions, interpolator, curve,
                   vanna_volga, arr, call_stack, current, instances,
                   lists>>

NextVannaVolga ==
    \/ NewVannaVolga
    \/ UnpackOptionQuotes
    \/ FirstOrderApproximation
    \/ K25dPut
    \/ K25dCall

SpecVannaVolga == Init /\ [][NextVannaVolga]_vars

\* the expiry dates occurring in the quotes of a list, and whether a list
\* holds a quote of a type for an expiry
ExpiriesQuoted(quotes) ==
    {quotes[i]["__expiry_date"] : i \in DOMAIN quotes}

Quoted(quotes, exp, quote_type) ==
    \E i \in DOMAIN quotes :
       /\ quotes[i]["__expiry_date"] = exp
       /\ quotes[i]["__quoteType"] = quote_type

CalibrationTypes ==
    {ATM_STRADDLE, TWENTY_FIVE_DELTA_RISK_REVERSAL,
     TWENTY_FIVE_DELTA_VEGA_WEIGHTED_BUTTERFLY}

AllThreeQuoted(quotes, exp) ==
    \A quote_type \in CalibrationTypes : Quoted(quotes, exp, quote_type)

OnlyCalibrationTypes(quotes) ==
    \A i \in DOMAIN quotes : quotes[i]["__quoteType"] \in CalibrationTypes

QuotedVol(quotes, exp, quote_type) ==
    quotes[CHOOSE i \in DOMAIN quotes :
              /\ quotes[i]["__expiry_date"] = exp
              /\ quotes[i]["__quoteType"] = quote_type
              /\ \A j \in DOMAIN quotes :
                    (/\ quotes[j]["__expiry_date"] = exp
                     /\ quotes[j]["__quoteType"] = quote_type) => j <= i]["__vol"]

QuotedPutVol(quotes, exp) ==
    Minus(Plus(QuotedVol(quotes, exp,
                         TWENTY_FIVE_DELTA_VEGA_WEIGHTED_BUTTERFLY),
               QuotedVol(quotes, exp, ATM_STRADDLE)),
          Times(Rat(1, 2),
                QuotedVol(quotes, exp, TWENTY_FIVE_DELTA_RISK_REVERSAL)))

\* -alpha * sigma * sqrt(tau) + 0.5 * sigma^2 * tau
PutExponent(a, sigma, tau) ==
    Plus(Times(Times(Minus(Rat(0, 1), a), sigma), np_sqrt(tau)),
         Times(Times(Rat(1, 2), Power(sigma, 2)), tau))

E_NAME == "NameError"

\* the names the module day_count_basis binds: its imports and its classes
DayCountBasisNames ==
    {"dt", "ABC", "abstractmethod", "time_utils", "DayCountBase", "Actual360",
     "Actual365", "ActualActual", "Thirty360"}

\* (d_2 - d_1).days / utils.length_of_year(y_1)
within_year(d_1, d_2) ==
    Rat(days_between(d_1, d_2), length_of_year(Year(d_1)))

\* (j_i - d_1).days / n_i + y + (d_2 - j_f).days / n_f, with y = y_2 - y_1
across_years(d_1, d_2, j_i, j_f) ==
    Plus(Plus(Rat(days_between(d_1, j_i), length_of_year(Year(d_1))),
              Rat(Year(d_2) - Year(d_1), 1)),
         Rat(days_between(j_f, d_2), length_of_year(Year(d_2))))

\* ActualActual.year_fraction(d_1, d_2): both branches call
\* utils.length_of_year, and the module binds time_utils, not utils
ActualActual(d_1, d_2) ==
    IF "utils" \notin DayCountBasisNames THEN Raises(E_NAME)
    ELSE IF Year(d_1) = Year(d_2) THEN ReturnsValue(within_year(d_1, d_2))
    ELSE ReturnsValue(across_years(d_1, d_2, Date(Year(d_1) + 1, 1, 1),
                                   Date(Year(d_2), 1, 1)))

DayCountDates ==
    {20200101, 20200229, 20201231, 20210101, 20210701, 20220101, 20221231,
     20230101, 20230615, 20240101, 20240229, 20241231}

\* ActualActual.year_fraction(d_1, d_2)
ActualActualYearFraction ==
    /\ \E d_1 \in DayCountDates, d_2 \in DayCountDates :
       \E r \in {ActualActual(d_1, d_2)} :
          last' = Returned("ActualActual.year_fraction", <<d_1, d_2>>, r.exc,
                           r.value)
    /\ UNCHANGED <<pc, schedule, schedule_periods, pricer, builds,
                   holiday_dates, conversions, interpolator, curve,
                   vanna_volga, arr, call_stack, current, instances,
                   lists>>

NextDayCount == ActualActualYearFraction

SpecDayCount == Init /\ [][NextDayCount]_vars

\* stub + W + stub with W = y2 - y1 - 1
StubsAndWholeYears(d_1, d_2) ==
    Plus(Plus(Rat(days_between(d_1, Date(Year(d_1) + 1, 1, 1)),
                  length_of_year(Year(d_1))),
              Rat(Year(d_2) - Year(d_1) - 1, 1)),
         Rat(days_between(Date(Year(d_2), 1, 1), d_2),
             length_of_year(Year(d_2))))

\* C24: for d1, d2 in different calendar years y1 < y2,
\* ActualActual.year_fraction(d1, d2) is the stub of y1 plus the whole years
\* between the stubs, each counted once (y2 - y1 - 1), plus the stub of y2;
\* from 1 January to the next 1 January it is exactly 1.
C24_WholeYearsCountedOnce ==
    (/\ last.op = "ActualActual.year_fraction"
     /\ Year(last.arg[1]) < Year(last.arg[2]))
    => /\ last.exc = OK
       /\ SameValue(last.value, StubsAndWholeYears(last.arg[1], last.arg[2]))
       /\ (/\ Month(last.arg[1]) = 1 /\ Day(last.arg[1]) = 1
           /\ last.arg[2] = Date(Year(last.arg[1]) + 1, 1, 1))
          => last.value = Rat(1, 1)

\* ---------------------------------------------------------------------
\* Christmas and Boxing Day in the LONDON calendar
\* ---------------------------------------------------------------------

\* calendar.is_holiday(dt.date(year, 12, day)) for the days around
\* Christmas; the call changes nothing, so a behaviour makes one
IsHoliday ==
    /\ last.op = "none"
    /\ \E year \in FirstCalendarYear..LastCalendarYear, day \in 25..28 :
          last' = Returned("is_holiday", Date(year, 12, day), OK,
                           is_holiday(Date(year, 12, day)))
    /\ UNCHANGED <<pc, schedule, schedule_periods, pricer, builds,
                   holiday_dates, conversions, interpolator, curve,
                   vanna_volga, arr, call_stack, current, instances,
                   lists>>

NextCalendar == IsHoliday

SpecCalendar == Init /\ [][NextCalendar]_vars

IsWeekend(date_value) ==
    weekday(date_value) = SATURDAY \/ weekday(date_value) = SUNDAY

\* the first day on or after a date that is no weekend day
NonWeekendFrom(date_value) ==
    IF ~IsWeekend(date_value) THEN date_value
    ELSE IF ~IsWeekend(AddDays(date_value, 1)) THEN AddDays(date_value, 1)
    ELSE AddDays(date_value, 2)

\* the first two non-weekend days on or after 25 December of a year
ChristmasHolidays(year) ==
    {NonWeekendFrom(Date(year, 12, 25)),
     NonWeekendFrom(AddDays(NonWeekendFrom(Date(year, 12, 25)), 1))}

\* C25: for every year from 1950 to 2100 the LONDON calendar holds, and
\* is_holiday reports, the first two non-weekend days on or after 25
\* December: 25 and 26 December when neither is a weekend day, the bumped
\* substitutes otherwise.
C25_ChristmasAndBoxingDay ==
    last.op = "is_holiday" =>
       /\ ChristmasHolidays(Year(last.arg)) \subseteq holiday_dates
       /\ last.arg \in ChristmasHolidays(Year(last.arg)) => last.value = TRUE

\* 27 December 2021, the substitute of a Christmas Day on a Saturday, has
\* been asked for and is a holiday
C25_Witness ==
    /\ last.op = "is_holiday"
    /\ last.arg = 20211227
    /\ weekday(20211225) = SATURDAY
    /\ last.value = TRUE

\* ---------------------------------------------------------------------
\* Quicksort (optionslib/algorithms/sort.py)
\* ---------------------------------------------------------------------

\* lists of at most MaxLen values are sorted
MaxLen == 4

SortValues == 1..3

SortLists == UNION {[1..n -> SortValues] : n \in 0..MaxLen}

\* arr[i] of the Python list, whose indices start at 0
At(a, i) == a[i + 1]

\* arr[i], arr[j] = arr[j], arr[i]
swap(a, i, j) == [a EXCEPT ![i + 1] = a[j + 1], ![j + 1] = a[i + 1]]

\* the condition of the first inner loop with < in the place of <=
scan_up_strict(a, i, pivot, high) == At(a, i) < pivot /\ i <= high - 1

\* while arr[i] <= pivot and i <= high - 1
scan_up(a, i, pivot, high) == At(a, i) <= pivot /\ i <= high - 1

\* while arr[j] > pivot and j >= low + 1
scan_down(a, j, pivot, low) == At(a, j) > pivot /\ j >= low + 1

\* the frame of a call: the function, its arguments, its locals and the
\* statement it is at
frame(fn, low, high, at, pivot) ==
    [fn |-> fn, low |-> low, high |-> high, at |-> at, i |-> low, j |-> high,
     pivot |-> pivot, partition_idx |-> None]

top == call_stack[Len(call_stack)]

\* the stack with the running frame replaced, with a frame pushed on it, and
\* without the running frame
goto(at) == [call_stack EXCEPT ![Len(call_stack)].at = at]

push(stack, f) == Append(stack, f)

pop == SubSeq(call_stack, 1, Len(call_stack) - 1)

running(fn, at) ==
    /\ call_stack # <<>>
    /\ top.fn = fn
    /\ top.at = at

InitSort ==
    /\ pc = "new"
    /\ schedule = NoSchedule
    /\ schedule_periods = <<>>
    /\ pricer = NoPricer
    /\ last = Call("none", None, OK, <<>>)
    /\ builds = 0
    /\ conversions = 0
    /\ interpolator = NoInterpolator
    /\ curve = NoCurve
    /\ holiday_dates = generate_london_calendar
    /\ vanna_volga = NoVannaVolga
    /\ arr \in SortLists
    /\ call_stack = <<>>
    /\ current = None
    /\ instances = <<>>
    /\ lists = <<<<>>>>

\* quick_sort(arr): quick_sort_helper(arr, 0, len(arr) - 1)
QuickSort ==
    /\ last.op = "none"
    /\ call_stack' = <<frame("quick_sort_helper", 0, Len(arr) - 1, "if", None)>>
    /\ last' = Call("quick_sort", None, OK, arr)
    /\ UNCHANGED <<pc, schedule, schedule_periods, pricer, builds,
                   holiday_dates, conversions, interpolator, curve,
                   vanna_volga, arr, current, instances, lists>>

\* if low < high: partition_idx = partition(arr, low, high); the callee
\* starts with pivot = arr[low], i = low, j = high
HelperIf ==
    /\ running("quick_sort_helper", "if")
    /\ call_stack' =
          IF top.low < top.high
          THEN push(goto("left"),
                    frame("partition", top.low, top.high, "while",
                          At(arr, top.low)))
          ELSE pop
    /\ UNCHANGED <<pc, schedule, schedule_periods, pricer, last, builds,
                   holiday_dates, conversions, interpolator, curve,
                   vanna_volga, arr, current, instances, lists>>

\* while i < j
PartitionWhile ==
    /\ running("partition", "while")
    /\ call_stack' = IF top.i < top.j THEN goto("up") ELSE goto("place")
    /\ UNCHANGED <<pc, schedule, schedule_periods, pricer, last, builds,
                   holiday_dates, conversions, interpolator, curve,
                   vanna_volga, arr, current, instances, lists>>

\* while arr[i] <= pivot and i <= high - 1: i += 1
PartitionUp ==
    /\ running("partition", "up")
    /\ call_stack' =
          IF scan_up(arr, top.i, top.pivot, top.high)
          THEN [call_stack EXCEPT ![Len(call_stack)].i = @ + 1]
          ELSE goto("down")
    /\ UNCHANGED <<pc, schedule, schedule_periods, pricer, last, builds,
                   holiday_dates, conversions, interpolator, curve,
                   vanna_volga, arr, current, instances, lists>>

\* while arr[j] > pivot and j >= low + 1: j -= 1
PartitionDown ==
    /\ running("partition", "down")
    /\ call_stack' =
          IF scan_down(arr, top.j, top.pivot, top.low)
          THEN [call_stack EXCEPT ![Len(call_stack)].j = @ - 1]
          ELSE goto("swap")
    /\ UNCHANGED <<pc, schedule, schedule_periods, pricer, last, builds,
                   holiday_dates, conversions, interpolator, curve,
                   vanna_volga, arr, current, instances, lists>>

\* if i < j: arr[i], arr[j] = arr[j], arr[i]
PartitionSwap ==
    /\ running("partition", "swap")
    /\ arr' = IF top.i < top.j THEN swap(arr, top.i, top.j) ELSE arr
    /\ call_stack' = goto("while")
    /\ UNCHANGED <<pc, schedule, schedule_periods, pricer, last, builds,
                   holiday_dates, conversions, interpolator, curve,
                   vanna_volga, current, instances, lists>>

\* arr[low], arr[j] = arr[j], arr[low]; return j: the caller binds
\* partition_idx
PartitionReturn ==
    /\ running("partition", "place")
    /\ arr' = swap(arr, top.low, top.j)
    /\ call_stack' = [pop EXCEPT ![Len(call_stack) - 1].partition_idx = top.j]
    /\ UNCHANGED <<pc, schedule, schedule_periods, pricer, last, builds,
                   holiday_dates, conversions, interpolator, curve,
                   vanna_volga, current, instances, lists>>

\* quick_sort_helper(arr, low, partition_idx - 1)
HelperLeft ==
    /\ running("quick_sort_helper", "left")
    /\ call_stack' =
          push(goto("right"),
               frame("quick_sort_helper", top.low, top.partition_idx - 1,
                     "if", None))
    /\ UNCHANGED <<pc, schedule, schedule_periods, pricer, last, builds,
                   holiday_dates, conversions, interpolator, curve,
                   vanna_volga, arr, current, instances, lists>>

\* quick_sort_helper(arr, partition_idx + 1, high)
HelperRight ==
    /\ running("quick_sort_helper", "right")
    /\ call_stack' =
          push(goto("return"),
               frame("quick_sort_helper", top.partition_idx + 1, top.high,
                     "if", None))
    /\ UNCHANGED <<pc, schedule, schedule_periods, pricer, last, builds,
                   holiday_dates, conversions, interpolator, curve,
                   vanna_volga, arr, current, instances, lists>>

\* the end of the body of quick_sort_helper
HelperReturn ==
    /\ running("quick_sort_helper", "return")
    /\ call_stack' = pop
    /\ UNCHANGED <<pc, schedule, schedule_periods, pricer, last, builds,
                   holiday_dates, conversions, interpolator, curve,
                   vanna_volga, arr, current, instances, lists>>

NextSort ==
    \/ QuickSort
    \/ HelperIf
    \/ PartitionWhile
    \/ PartitionUp
    \/ PartitionDown
    \/ PartitionSwap
    \/ PartitionReturn
    \/ HelperLeft
    \/ HelperRight
    \/ HelperReturn

SpecSort == InitSort /\ [][NextSort]_vars

\* the interpreter runs the call to its end: a statement that can be
\* executed is executed
FairSpecSort == SpecSort /\ WF_vars(NextSort)

\* quick_sort has returned
Returned_quick_sort == last.op = "quick_sort" /\ call_stack = <<>>

Ascending(a) == \A k \in 1..(Len(a) - 1) : a[k] <= a[k + 1]

Occurrences(a, v) == Cardinality({k \in DOMAIN a : a[k] = v})

PermutationOf(a, b) ==
    /\ Len(a) = Len(b)
    /\ \A v \in SortValues : Occurrences(a, v) = Occurrences(b, v)

\* C26: quick_sort(arr) terminates for every finite list, and when it has
\* returned arr is in ascending order and a permutation of the list it was
\* given (lists with duplicates, sorted and reverse-sorted lists, lists of
\* length 0 and 1 included).
C26_QuickSortSorts ==
    /\ <>Returned_quick_sort
    /\ [](Returned_quick_sort =>
             Ascending(arr) /\ PermutationOf(arr, last.before))

\* a reverse-sorted list with a duplicate has been sorted
C26_Witness ==
    /\ Returned_quick_sort
    /\ last.before = <<3, 3, 2, 1>>
    /\ arr = <<1, 2, 3, 3>>

\* ---------------------------------------------------------------------
\* The period walk of a build, one iteration of its loop at a time
\* ---------------------------------------------------------------------

\* a walk is followed until the list holds MaxPeriods periods
MaxPeriods == 6

WalkStartDates == {20230310, 20230314, 20230315}

WalkEndDates == {20230415, 20230416}

WalkRegularDates == {<<None, None>>, <<20230315, 20230415>>}

WalkFrequencies ==
    {<<1, DAYS>>, <<31, DAYS>>, <<1, BUSINESS_DAYS>>, <<1, MONTHS>>,
     <<1, YEARS>>}

WalkStubConventions == {SHORT_INITIAL, SHORT_FINAL, BOTH}

\* the stub periods before the first and after the last regular period
initial_stub(s) ==
    SchedulePeriod(s.start_date, s.first_regular_start_date,
                   adjust(s.start_date, s.business_day_convention),
                   adjust(s.first_regular_start_date,
                          s.business_day_convention))

final_stub(s) ==
    SchedulePeriod(s.last_regular_end_date, s.end_date,
                   adjust(s.last_regular_end_date, s.business_day_convention),
                   adjust(s.end_date, s.business_day_convention))

\* SchedulePeriod(unadj_start, unadj_end, adj_start, adj_end) of a loop body
regular_period(s, unadj_start, unadj_end_date) ==
    SchedulePeriod(unadj_start, unadj_end_date,
                   adjust(unadj_start, s.business_day_convention),
                   adjust(unadj_end_date, s.business_day_convention))

\* A Schedule has been constructed, its roll convention read, and
\* build_schedule_periods has passed pre_validation.
InitWalk ==
    /\ holiday_dates = generate_london_calendar
    /\ pc = "build"
    /\ \E start_date \in WalkStartDates, end_date \in WalkEndDates,
          regular \in WalkRegularDates, frequency \in WalkFrequencies,
          business_day_convention \in AllBusinessDayConventions,
          stub_convention \in WalkStubConventions :
          /\ check_end_date(start_date, end_date) = OK
          /\ check_stub_convention(regular[1], regular[2], stub_convention)
                = OK
          /\ \E v \in {pre_validation(roll_convention(
                         Schedule(start_date, end_date, regular[1],
                                  regular[2], frequency[1], frequency[2],
                                  business_day_convention, NoRoll,
                                  stub_convention)))} :
                /\ v.exc = OK
                /\ schedule = v.s
    /\ schedule_periods = <<>>
    /\ pricer = NoPricer
    /\ last = Call("build_schedule_periods", None, OK, <<>>)
    /\ builds = 0
    /\ conversions = 0
    /\ interpolator = NoInterpolator
    /\ curve = NoCurve
    /\ vanna_volga = NoVannaVolga
    /\ arr = <<>>
    /\ call_stack = <<>>
    /\ current = None
    /\ instances = <<>>
    /\ lists = <<<<>>>>

\* the statements of a builder before its while loop
BeginWalk ==
    /\ pc = "build"
    /\ pc' = "walk"
    /\ current' =
          IF schedule.stub_convention = SHORT_INITIAL THEN schedule.end_date
          ELSE IF schedule.stub_convention = BOTH
          THEN schedule.first_regular_start_date
          ELSE schedule.start_date
    /\ schedule_periods' =
          IF /\ schedule.stub_convention = BOTH
             /\ schedule.start_date # schedule.first_regular_start_date
          THEN Append(schedule_periods, initial_stub(schedule))
          ELSE schedule_periods
    /\ UNCHANGED <<schedule, pricer, last, builds, holiday_dates, conversions,
                   interpolator, curve, vanna_volga, arr, call_stack,
                   instances, lists>>

\* the builder raises exc
WalkRaises(exc) ==
    /\ pc' = "raised"
    /\ last' = [last EXCEPT !.exc = exc]
    /\ UNCHANGED <<schedule_periods, current, instances, lists>>

\* one iteration of "while current < self.last_regular_end_date" in
\* build_short_final and build_both
WalkForward ==
    /\ pc = "walk"
    /\ schedule.stub_convention \in {SHORT_FINAL, BOTH}
    /\ current < schedule.last_regular_end_date
    /\ Len(schedule_periods) < MaxPeriods
    /\ \E generated \in {unadj_end(schedule, current, schedule.num)} :
          IF generated = RAISE THEN WalkRaises(E_DAY_RANGE)
          ELSE IF ~valid_roll_day(schedule, generated)
          THEN WalkRaises(E_ROLL_DAY)
          ELSE /\ schedule_periods' =
                     Append(schedule_periods,
                            regular_period(schedule, current, generated))
               /\ current' = generated
               /\ UNCHANGED <<pc, last, instances, lists>>
    /\ UNCHANGED <<schedule, pricer, builds, holiday_dates, conversions,
                   interpolator, curve, vanna_volga, arr, call_stack,
                   instances, lists>>

\* one iteration of "while current > self.first_regular_start_date" in
\* build_short_initial
WalkBackward ==
    /\ pc = "walk"
    /\ schedule.stub_convention = SHORT_INITIAL
    /\ current > schedule.first_regular_start_date
    /\ Len(schedule_periods) < MaxPeriods
    /\ \E generated \in
             {unadj_end(schedule, current, (0 - 1) * schedule.num)} :
          IF generated = RAISE THEN WalkRaises(E_DAY_RANGE)
          ELSE IF ~valid_roll_day(schedule, generated)
          THEN WalkRaises(E_ROLL_DAY)
          ELSE /\ schedule_periods' =
                     Append(schedule_periods,
                            regular_period(schedule, generated, current))
               /\ current' = generated
               /\ UNCHANGED <<pc, last, instances, lists>>
    /\ UNCHANGED <<schedule, pricer, builds, holiday_dates, conversions,
                   interpolator, curve, vanna_volga, arr, call_stack,
                   instances, lists>>

\* build_short_final after its loop: the final stub is appended
FinishShortFinal ==
    /\ pc = "walk"
    /\ schedule.stub_convention = SHORT_FINAL
    /\ ~(current < schedule.last_regular_end_date)
    /\ pc' = "built"
    /\ schedule_periods' = Append(schedule_periods, final_stub(schedule))
    /\ UNCHANGED <<schedule, pricer, last, builds, holiday_dates, conversions,
                   interpolator, curve, vanna_volga, arr, call_stack, current,
                   instances, lists>>

\* build_short_initial after its loop: the initial stub is appended and the
\* list reversed
FinishShortInitial ==
    /\ pc = "walk"
    /\ schedule.stub_convention = SHORT_INITIAL
    /\ ~(current > schedule.first_regular_start_date)
    /\ pc' = "built"
    /\ schedule_periods' =
          Reverse(Append(schedule_periods, initial_stub(schedule)))
    /\ UNCHANGED <<schedule, pricer, last, builds, holiday_dates, conversions,
                   interpolator, curve, vanna_volga, arr, call_stack, current,
                   instances, lists>>

\* build_both after its loop: the walk must have landed on
\* last_regular_end_date; the final stub is appended when there is one
FinishBoth ==
    /\ pc = "walk"
    /\ schedule.stub_convention = BOTH
    /\ ~(current < schedule.last_regular_end_date)
    /\ IF current # schedule.last_regular_end_date
       THEN WalkRaises(E_LAND)
       ELSE /\ pc' = "built"
            /\ schedule_periods' =
                  IF schedule.last_regular_end_date # schedule.end_date
                  THEN Append(schedule_periods, final_stub(schedule))
                  ELSE schedule_periods
            /\ UNCHANGED <<last, current, instances, lists>>
    /\ UNCHANGED <<schedule, pricer, builds, holiday_dates, conversions,
                   interpolator, curve, vanna_volga, arr, call_stack,
                   instances, lists>>

NextWalk ==
    \/ BeginWalk
    \/ WalkForward
    \/ WalkBackward
    \/ FinishShortFinal
    \/ FinishShortInitial
    \/ FinishBoth

SpecWalk == InitWalk /\ [][NextWalk]_vars

\* C27: every SchedulePeriod the builder appends, a regular period or a
\* stub, has unadjusted_start_date < unadjusted_end_date and
\* adjusted_end_date >= adjusted_start_date.
C27_PeriodsRunForward ==
    \A k \in DOMAIN schedule_periods :
       /\ schedule_periods[k].unadjusted_start_date
             < schedule_periods[k].unadjusted_end_date
       /\ schedule_periods[k].adjusted_end_date
             >= schedule_periods[k].adjusted_start_date

\* C30: period generation terminates: each iteration of the regular-period
\* walk moves current strictly toward its bound, forward in
\* build_short_final and build_both, backward in build_short_initial.
C30_WalkAdvances ==
    [][(pc = "walk" /\ pc' = "walk") =>
          IF schedule.stub_convention = SHORT_INITIAL
          THEN current' < current
          ELSE current' > current]_vars

\* ---------------------------------------------------------------------
\* Several Schedule objects and the lists their _schedule_periods refer to
\* ---------------------------------------------------------------------

\* Schedule objects constructed in one behaviour
MaxInstances == 2

\* _schedule_periods = field(default=[]): the list is made once, when the
\* class body runs, and the generated __init__ assigns that one object to
\* every instance constructed without schedule_periods
field_default == 1

\* the constructor arguments of the instances
InstanceSchedules ==
    {Schedule(20230315, 20240315, None, None, 3, MONTHS, MODIFIED_FOLLOWING,
              15, SHORT_FINAL),
     Schedule(20230101, 20240101, None, None, 6, MONTHS, MODIFIED_FOLLOWING,
              1, SHORT_INITIAL),
     Schedule(20230315, 20230401, None, None, 1, MONTHS, MODIFIED_FOLLOWING,
              NoRoll, SHORT_FINAL)}

\* self._schedule_periods of instance i
PeriodsOf(i) == lists[instances[i].schedule_periods]

\* Schedule(...) without schedule_periods
ConstructInstance ==
    /\ Len(instances) < MaxInstances
    /\ \E s \in InstanceSchedules :
          /\ check_end_date(s.start_date, s.end_date) = OK
          /\ check_stub_convention(s.first_regular_start_date,
                                   s.last_regular_end_date,
                                   s.stub_convention) = OK
          /\ instances' =
                Append(instances, [s |-> s, schedule_periods |-> field_default])
    /\ last' = Returned("Schedule", Len(instances) + 1, OK,
                        lists[field_default])
    /\ UNCHANGED <<pc, schedule, schedule_periods, pricer, builds,
                   holiday_dates, conversions, interpolator, curve,
                   vanna_volga, arr, call_stack, current, lists>>

\* the object instance i after a call with outcome r, and the list it
\* refers to
InstanceReturns(i, r) ==
    /\ instances' = [instances EXCEPT ![i].s = r.s]
    /\ lists' = [lists EXCEPT ![instances[i].schedule_periods] = r.periods]

\* instances[i].schedule_periods
ReadInstancePeriods ==
    /\ \E i \in DOMAIN instances :
          \E r \in {schedule_periods_property(instances[i].s, PeriodsOf(i))} :
             /\ InstanceReturns(i, r)
             /\ last' = Returned("schedule_periods", i, r.exc, r.periods)
    /\ UNCHANGED <<pc, schedule, schedule_periods, pricer, builds,
                   holiday_dates, conversions, interpolator, curve,
                   vanna_volga, arr, call_stack, current>>

\* instances[i].get_period(k)
GetInstancePeriod ==
    /\ \E i \in DOMAIN instances, k \in 0..MaxIndex :
          \E r \in {get_period(instances[i].s, PeriodsOf(i), k)} :
             /\ InstanceReturns(i, r)
             /\ last' = Returned("get_period", i, r.exc,
                                 IF r.exc = OK THEN r.periods[k + 1]
                                 ELSE None)
    /\ UNCHANGED <<pc, schedule, schedule_periods, pricer, builds,
                   holiday_dates, conversions, interpolator, curve,
                   vanna_volga, arr, call_stack, current>>

NextInstances ==
    \/ ConstructInstance
    \/ ReadInstancePeriods
    \/ GetInstancePeriod

SpecInstances == Init /\ [][NextInstances]_vars

\* C28: distinct Schedule instances never share period state: a Schedule
\* constructed without a period list starts with no periods, and a
\* schedule_periods or get_period call on one instance leaves the period
\* sequence of every other instance unchanged.
C28_InstancesShareNothing ==
    [][/\ last'.op = "Schedule" => lists'[instances'[last'.arg].schedule_periods] = <<>>
       /\ last'.op \in {"schedule_periods", "get_period"} =>
             \A j \in DOMAIN instances :
                j # last'.arg =>
                   lists'[instances'[j].schedule_periods] = PeriodsOf(j)]_vars

\* ---------------------------------------------------------------------
\* What a failed build leaves behind
\* ---------------------------------------------------------------------

\* the errors a builder raises while it walks
BuilderErrors == {E_ROLL_DAY, E_LAND}

\* C29: a failed period build leaves no partial result: when
\* build_schedule_periods raises from its walk the period sequence is left
\* empty, and a later schedule_periods or get_period call raises the same
\* error again.
C29_FailedBuildLeavesNothing ==
    [][/\ (/\ last'.op \in {"build_schedule_periods", "schedule_periods",
                            "get_period"}
           /\ last'.exc \in BuilderErrors) => schedule_periods' = <<>>
       /\ (/\ last.op \in {"build_schedule_periods", "schedule_periods",
                           "get_period"}
           /\ last.exc \in BuilderErrors
           /\ last'.op \in {"schedule_periods", "get_period"})
             => last'.exc = last.exc]_vars

====
